---- MODULE Spec2Model ----
(***************************************************************************)
(* A model of the resource and pipeline management core of helios3:        *)
(*   MeshRegistry   (src/src/components/uniformBuffer.ts)                  *)
(*   Material       (src/unnamed/part_002)                                 *)
(*   Shader         (src/src/components/shader.ts)                         *)
(*   PipelineCache  (src/src/components/pipelineCache.ts)                  *)
(*   ShaderManager  (src/src/components/shaderManager.ts)                  *)
(* Each component is explored by its own specification (SpecMesh,          *)
(* SpecMaterial, SpecShader, SpecManager); the variables of the other      *)
(* components stay at their initial values there.                          *)
(*                                                                         *)
(* GPU objects (buffers, bind groups, shader modules, pipelines) are       *)
(* modelled by their identity: the n-th object the device creates has the  *)
(* id n, and 0 stands for null.  Float values are modelled by integers.    *)
(***************************************************************************)
EXTENDS Integers, Sequences, FiniteSets, TLC

\* ------------------------------------------------------------------ bounds

\* registerMesh calls explored in one behaviour
MaxMeshes == 3
\* words of the catalog array (1024 in the source, scaled down so that
\* filling it up is within reach)
RegistryWords == 20
\* bind groups the device creates in one behaviour
MaxBindGroups == 3
\* shader modules the device creates in one behaviour
MaxShaderModules == 5
\* shaders and materials registered with one ShaderManager
MaxShaders == 2
MaxMaterials == 2
\* ShaderManager.setup calls in one behaviour
MaxSetups == 1
\* render pipelines the device creates in one behaviour
MaxPipelines == 2
\* the byte size of the buffer slots Renderer declares (1024 in the source)
RegistrySlotSize == 64
\* the words of Renderer.sceneBuffer (1024 in the source)
SceneWords == 12
\* Renderer.uploadMesh calls in one behaviour
MaxUploads == 3
\* usage records held by one RenderPassBuilder
MaxUsageRecords == 3
\* passes added to one RenderGraph
MaxPasses == 3
\* lines of a shader source handed to Shader.preprocess
MaxLines == 5
\* setter calls on the materials of a ShaderManager in one behaviour
MaxSetterCalls == 3

\* the objects added to the scene
MaxObjects == 3

\* the frame callbacks run
MaxFrames == 2

\* the setter calls made between the frames of a render loop
MaxFrameSetterCalls == 1

\* the setup() calls made on one ShaderManager, the first included
MaxLayoutSets == 2

\* ----------------------------------------------------------- common values

\* JavaScript null and undefined where a number is expected
Null == 0 - 1
Undefined == 0 - 2

\* an optional argument: absent (undefined) or a typed array
None == [present |-> FALSE, data |-> <<>>]
Some(d) == [present |-> TRUE, data |-> d]

\* Float32Array.byteLength and Uint16Array.byteLength
Float32ByteLength(a) == 4 * Len(a)
Uint16ByteLength(a) == 2 * Len(a)

\* a | b and a & b on non-negative integers
RECURSIVE BitOr(_, _)
BitOr(a, b) ==
    IF a = 0 THEN b
    ELSE IF b = 0 THEN a
    ELSE (IF (a % 2 = 1) \/ (b % 2 = 1) THEN 1 ELSE 0) + 2 * BitOr(a \div 2, b \div 2)

RECURSIVE BitAnd(_, _)
BitAnd(a, b) ==
    IF a = 0 \/ b = 0 THEN 0
    ELSE (IF (a % 2 = 1) /\ (b % 2 = 1) THEN 1 ELSE 0) + 2 * BitAnd(a \div 2, b \div 2)

VARIABLES
    \* ---- MeshRegistry
    meshBuffers,          \* TRUE once initialize() has created the four buffers
    vertexCursor,
    indexCursor,
    normalCursor,
    uv0Cursor,
    meshRegistry,         \* the catalog, a Uint32Array
    meshRegistryCursor,
    queueWrites,          \* the queue.writeBuffer requests issued, in order
    meshLog,              \* history: one record per registerMesh call
    meshRead,             \* the last getMeshData call and what it returned
    \* ---- the GPU device
    device,               \* the objects created so far, by kind
    \* ---- Material
    material,             \* the fields of one Material object
    matCall,              \* history: the last Material call and what it did
    matHist,              \* history: the calls since the last getBindGroup
    \* ---- Shader
    shader,               \* the fields of one Shader object
    shaderCall,           \* history: the last getModule call and what it did
    shaderHist,           \* history: per variant key, the modules compiled
    variantKeys,          \* history: the last two getVariantKey calls
    \* ---- ShaderManager and its PipelineCache
    manager,              \* the fields of one ShaderManager object
    pipeCall,             \* history: the last call that threw, set up or used the pipeline cache
    pipeHist,             \* history: the getOrCreate calls on the current cache
                          \* since its last clear()
    \* ---- Renderer and its ResourceRegistry
    renderer,             \* the fields of one Renderer object
    registry,             \* renderer.registry: the buffers map of the ResourceRegistry
    regCall,              \* history: the last Renderer / ResourceRegistry call
    uploads,              \* history: the uploadMesh calls made
    \* ---- RenderPassBuilder
    builder,              \* the fields of one RenderPassBuilder object
    builderCall,          \* history: the last RenderPassBuilder call
    \* ---- RenderGraph
    graph,                \* the fields of one RenderGraph object
    graphCall,            \* history: the last RenderGraph call
    \* ---- Renderer with its scene, and its RenderPass3D
    scene,                \* renderer.Scene.scene: the render objects
    pass3D,               \* renderer.pass: the fields of the RenderPass3D object
    frame,                \* history: the last RenderPass3D.execute call
    loop,                 \* the frame callbacks requested and run
    setterCalls           \* history: the setter calls made on stored materials

meshVars == <<meshBuffers, vertexCursor, indexCursor, normalCursor, uv0Cursor,
              meshRegistry, meshRegistryCursor, queueWrites, meshLog, meshRead>>

matVars == <<material, matCall, matHist>>

shaderVars == <<shader, shaderCall, shaderHist, variantKeys>>

managerVars == <<manager, pipeCall, pipeHist>>

registryVars == <<renderer, registry, regCall, uploads>>

builderVars == <<builder, builderCall>>

graphVars == <<graph, graphCall>>

frameVars == <<scene, pass3D, frame, loop>>

vars == <<meshVars, device, matVars, shaderVars, managerVars, registryVars, builderVars, graphVars, frameVars, setterCalls>>

\* ============================================================ MeshRegistry

\* the meshes the calling code registers
Triangle == <<0, 10, 0, 0 - 5, 0 - 5, 0, 5, 0 - 5, 0>>
Quad == <<0 - 5, 5, 0, 5, 5, 0, 5, 0 - 5, 0, 0 - 5, 0 - 5, 0>>
VertexArrays == {Triangle, Quad}
IndexArrays == {<<0, 1, 2>>, <<0, 1, 2, 2, 0, 3>>}
NormalArrays == {<<0, 0, 1, 0, 0, 1, 0, 0, 1>>}
UvArrays == {<<0, 0, 1, 0, 1, 1>>}
OptNormals == {None} \cup {Some(d) : d \in NormalArrays}
OptUvs == {None} \cup {Some(d) : d \in UvArrays}

\* fields of the MeshRegistry object after construction
MeshInit ==
    /\ meshBuffers = FALSE
    /\ vertexCursor = 0
    /\ indexCursor = 0
    /\ normalCursor = 0
    /\ uv0Cursor = 0
    /\ meshRegistry = [i \in 0..(RegistryWords - 1) |-> 0]
    /\ meshRegistryCursor = 0
    /\ queueWrites = <<>>
    /\ meshLog = <<>>
    /\ meshRead = [meshId |-> Null, data |-> <<>>]

\* MeshRegistry.initialize
Initialize ==
    /\ meshBuffers' = TRUE
    /\ UNCHANGED <<vertexCursor, indexCursor, normalCursor, uv0Cursor, meshRegistry,
                   meshRegistryCursor, queueWrites, meshLog, meshRead>>
    /\ UNCHANGED <<device, matVars, shaderVars, managerVars, registryVars, builderVars, graphVars, frameVars, setterCalls>>

\* meshRegistry[i] = v: a store outside the array is ignored.  Every word
\* stored is a mask or a byte offset or length below 2^32 (the buffers hold
\* at most 1 MB), so the Uint32 conversion of the store changes no value.
StoreWord(reg, i, v) ==
    IF i \in DOMAIN reg THEN [reg EXCEPT ![i] = v] ELSE reg

\* meshRegistry[i]: a read outside the array gives undefined
LoadWord(reg, i) == IF i \in DOMAIN reg THEN reg[i] ELSE Undefined

\* TypedArray.set(words, offset) throws a RangeError, storing nothing, when
\* the words do not fit
SetFits(reg, words, offset) == offset + Len(words) <= RegistryWords

SetWords(reg, words, offset) ==
    [i \in DOMAIN reg |->
        IF i >= offset /\ i < offset + Len(words)
        THEN words[i - offset + 1]
        ELSE reg[i]]

\* the registry mask of registerMesh: vertex and index always, normal, uv0
RegistryMask(normalData, uv0Data) ==
    LET m0 == 3
        m1 == IF normalData.present THEN BitOr(m0, 4) ELSE m0
    IN  IF uv0Data.present THEN BitOr(m1, 8) ELSE m1

\* a meshData array whose offsets are the cursors after the uploads
MeshData_offsetAfter(mask, vCur, iCur, nCur, uCur, vertexData, indexData, normalData, uv0Data) ==
    <<mask,
      vCur, Float32ByteLength(vertexData),
      iCur, Uint16ByteLength(indexData)>>
    \o (IF normalData.present
        THEN <<nCur, Float32ByteLength(normalData.data)>>
        ELSE <<>>)
    \o (IF uv0Data.present
        THEN <<uCur, Float32ByteLength(uv0Data.data)>>
        ELSE <<>>)

\* the meshData array registerMesh builds, from the cursors after the uploads
MeshData(mask, vCur, iCur, nCur, uCur, vertexData, indexData, normalData, uv0Data) ==
    <<mask,
      vCur - Float32ByteLength(vertexData), Float32ByteLength(vertexData),
      iCur - Uint16ByteLength(indexData), Uint16ByteLength(indexData)>>
    \o (IF normalData.present
        THEN <<nCur - Float32ByteLength(normalData.data), Float32ByteLength(normalData.data)>>
        ELSE <<>>)
    \o (IF uv0Data.present
        THEN <<uCur - Float32ByteLength(uv0Data.data), Float32ByteLength(uv0Data.data)>>
        ELSE <<>>)

\* the data registerMesh hands to queue.writeBuffer for the index buffer
IndexUpload(indexData) == indexData

\* a write position one word before the handle
EntryOffset_before(meshId) == meshId - 1

\* the catalog position registerMesh writes the meshData array at
EntryOffset(meshId) == meshId + 1

\* MeshRegistry.registerMesh.  The statements before the final set() keep
\* their effect when set() throws.
RegisterMesh(vertexData, indexData, normalData, uv0Data) ==
    LET registryMask == RegistryMask(normalData, uv0Data)
        meshId == meshRegistryCursor
        reg1 == StoreWord(meshRegistry, meshId, registryMask)
        cur1 == meshRegistryCursor + 1
        vCur == vertexCursor + Float32ByteLength(vertexData)
        iCur == indexCursor + Uint16ByteLength(indexData)
        nCur == IF normalData.present
                THEN normalCursor + Float32ByteLength(normalData.data)
                ELSE normalCursor
        uCur == IF uv0Data.present
                THEN uv0Cursor + Float32ByteLength(uv0Data.data)
                ELSE uv0Cursor
        writes ==
            << [buffer |-> "vertex", offset |-> vertexCursor, data |-> vertexData],
               [buffer |-> "index", offset |-> indexCursor, data |-> IndexUpload(indexData)] >>
            \o (IF normalData.present
                THEN <<[buffer |-> "normal", offset |-> normalCursor, data |-> normalData.data]>>
                ELSE <<>>)
            \o (IF uv0Data.present
                THEN <<[buffer |-> "uv0", offset |-> uv0Cursor, data |-> uv0Data.data]>>
                ELSE <<>>)
        meshData == MeshData(registryMask, vCur, iCur, nCur, uCur,
                             vertexData, indexData, normalData, uv0Data)
        fits == SetFits(reg1, meshData, EntryOffset(meshId))
    IN  /\ meshBuffers
        /\ Len(meshLog) < MaxMeshes
        /\ vertexCursor' = vCur
        /\ indexCursor' = iCur
        /\ normalCursor' = nCur
        /\ uv0Cursor' = uCur
        /\ queueWrites' = queueWrites \o writes
        /\ meshRegistry' = IF fits THEN SetWords(reg1, meshData, EntryOffset(meshId)) ELSE reg1
        /\ meshRegistryCursor' = IF fits THEN EntryOffset(meshId) + Len(meshData) ELSE cur1
        /\ meshLog' = Append(meshLog,
               [vertexData |-> vertexData, indexData |-> indexData,
                normalData |-> normalData, uv0Data |-> uv0Data,
                threw |-> ~fits,
                handle |-> IF fits THEN meshId ELSE Null,
                cursorBefore |-> meshRegistryCursor,
                cursorAfter |-> IF fits THEN EntryOffset(meshId) + Len(meshData) ELSE cur1,
                indexWrite |-> IndexUpload(indexData),
                vertexOffset |-> vertexCursor, indexOffset |-> indexCursor,
                normalOffset |-> normalCursor, uv0Offset |-> uv0Cursor,
                entryWords |-> Len(meshData)])
        /\ UNCHANGED <<meshBuffers, meshRead>>
        /\ UNCHANGED <<device, matVars, shaderVars, managerVars, registryVars, builderVars, graphVars, frameVars, setterCalls>>

\* MeshRegistry.getMeshData, on a catalog array reg
getMeshData(reg, meshId) ==
    LET registryMask == LoadWord(reg, meshId)
        maskBits == IF registryMask = Undefined THEN 0 ELSE registryMask
        hasNormal == BitAnd(maskBits, 4) # 0
        hasUV0 == BitAnd(maskBits, 8) # 0
    IN  [vertexOffset |-> LoadWord(reg, meshId + 1),
         vertexSize |-> LoadWord(reg, meshId + 2),
         indexOffset |-> LoadWord(reg, meshId + 3),
         indexSize |-> LoadWord(reg, meshId + 4),
         normalOffset |-> IF hasNormal THEN LoadWord(reg, meshId + 5) ELSE Null,
         normalSize |-> IF hasNormal THEN LoadWord(reg, meshId + 6) ELSE Null,
         uv0Offset |-> IF hasUV0 THEN LoadWord(reg, meshId + 7) ELSE Null,
         uv0Size |-> IF hasUV0 THEN LoadWord(reg, meshId + 8) ELSE Null]

\* a getMeshData call with a handle some registerMesh call returned
GetMeshData(k) ==
    /\ ~meshLog[k].threw
    /\ meshRead' = [meshId |-> meshLog[k].handle,
                    data |-> getMeshData(meshRegistry, meshLog[k].handle)]
    /\ UNCHANGED <<meshBuffers, vertexCursor, indexCursor, normalCursor, uv0Cursor,
                   meshRegistry, meshRegistryCursor, queueWrites, meshLog>>
    /\ UNCHANGED <<device, matVars, shaderVars, managerVars, registryVars, builderVars, graphVars, frameVars, setterCalls>>

MeshNext ==
    \/ Initialize
    \/ \E v \in VertexArrays, i \in IndexArrays, n \in OptNormals, u \in OptUvs :
           RegisterMesh(v, i, n, u)
    \/ \E k \in 1..Len(meshLog) : GetMeshData(k)

\* ---- MeshRegistry: properties

\* the words of a catalog entry: mask, vertex span, index span, and a span
\* for each optional attribute present
EntryWordCount(e) ==
    5 + (IF e.normalData.present THEN 2 ELSE 0) + (IF e.uv0Data.present THEN 2 ELSE 0)

\* the registerMesh calls that returned a handle
Registered == {k \in 1..Len(meshLog) : ~meshLog[k].threw}

\* C4: for every mesh registered with vertex data of byte length Lv and index
\* data of byte length Li, whatever was registered before and after it,
\* getMeshData(handle) reports the vertex byte length Lv and the index byte
\* length Li.
C4_MeshDataByteLengths ==
    \A k \in Registered :
        LET d == getMeshData(meshRegistry, meshLog[k].handle)
        IN  /\ d.vertexSize = Float32ByteLength(meshLog[k].vertexData)
            /\ d.indexSize = Uint16ByteLength(meshLog[k].indexData)

\* C9: registerMesh with index data of odd element count writes an even
\* number of elements to the index buffer: the original elements followed by
\* one trailing zero.
C9_OddIndexDataPadded ==
    \A k \in 1..Len(meshLog) :
        Len(meshLog[k].indexData) % 2 = 1 =>
            /\ Len(meshLog[k].indexWrite) % 2 = 0
            /\ meshLog[k].indexWrite = Append(meshLog[k].indexData, 0)

\* C10: each registerMesh call that returns advances the catalog cursor by
\* exactly the entry's word count: 5, 7 or 9.
C10_CursorAdvancesByEntryWords ==
    \A k \in Registered :
        meshLog[k].cursorAfter - meshLog[k].cursorBefore = EntryWordCount(meshLog[k])

\* the words registerMesh call k stored, from its handle on: the mask, then
\* the meshData array it built
StoredWords(k) ==
    LET e == meshLog[k]
        mask == RegistryMask(e.normalData, e.uv0Data)
    IN  <<mask>> \o
        MeshData(mask,
                 e.vertexOffset + Float32ByteLength(e.vertexData),
                 e.indexOffset + Uint16ByteLength(e.indexData),
                 IF e.normalData.present
                 THEN e.normalOffset + Float32ByteLength(e.normalData.data)
                 ELSE e.normalOffset,
                 IF e.uv0Data.present
                 THEN e.uv0Offset + Float32ByteLength(e.uv0Data.data)
                 ELSE e.uv0Offset,
                 e.vertexData, e.indexData, e.normalData, e.uv0Data)

IsNumber(v) == v # Null /\ v # Undefined

\* C12: getMeshData(handle) reports the normal offset and size as null
\* exactly when the mesh was registered without normal data, the uv offset
\* and size as null exactly when it was registered without uv data; the
\* attributes that were supplied are reported as non-null numbers.
C12_OptionalAttributesReported ==
    \A k \in Registered :
        LET d == getMeshData(meshRegistry, meshLog[k].handle)
            e == meshLog[k]
        IN  /\ (d.normalOffset = Null) <=> ~e.normalData.present
            /\ (d.normalSize = Null) <=> ~e.normalData.present
            /\ (d.uv0Offset = Null) <=> ~e.uv0Data.present
            /\ (d.uv0Size = Null) <=> ~e.uv0Data.present
            /\ e.normalData.present => IsNumber(d.normalOffset) /\ IsNumber(d.normalSize)
            /\ e.uv0Data.present => IsNumber(d.uv0Offset) /\ IsNumber(d.uv0Size)


\* the attribute buffers of the MeshRegistry
Attributes == {"vertex", "index", "normal", "uv0"}

\* whether registerMesh call e supplied data for an attribute
HasAttribute(e, attr) ==
    CASE attr = "normal" -> e.normalData.present
      [] attr = "uv0" -> e.uv0Data.present
      [] OTHER -> TRUE

\* the byte length of the data call e supplied for an attribute, 0 for none
AttributeByteLength(e, attr) ==
    CASE attr = "vertex" -> Float32ByteLength(e.vertexData)
      [] attr = "index" -> Uint16ByteLength(e.indexData)
      [] attr = "normal" ->
             IF e.normalData.present THEN Float32ByteLength(e.normalData.data) ELSE 0
      [] OTHER ->
             IF e.uv0Data.present THEN Float32ByteLength(e.uv0Data.data) ELSE 0

\* the bytes of an attribute supplied by the first n registerMesh calls
RECURSIVE BytesOfFirst(_, _)
BytesOfFirst(attr, n) ==
    IF n = 0 THEN 0
    ELSE BytesOfFirst(attr, n - 1) + AttributeByteLength(meshLog[n], attr)

\* the (offset, size) pair in the catalog as it is now, at the place call k
\* wrote the pair of an attribute it supplied
WrittenSpan(k, attr) ==
    LET e == meshLog[k]
        first == CASE attr = "vertex" -> 1
                   [] attr = "index" -> 3
                   [] attr = "normal" -> 5
                   [] OTHER -> IF e.normalData.present THEN 7 ELSE 5
        at == EntryOffset(e.handle) + first
    IN  [offset |-> meshRegistry[at], size |-> meshRegistry[at + 1]]

\* the cursor of an attribute buffer
CursorOf(attr) ==
    CASE attr = "vertex" -> vertexCursor
      [] attr = "index" -> indexCursor
      [] attr = "normal" -> normalCursor
      [] OTHER -> uv0Cursor

\* C36: when every registerMesh call so far returned, the (offset, size)
\* pairs in the catalog for one attribute buffer are pairwise disjoint and
\* tile [0, cursor) in registration order: each offset is the sum of that
\* attribute's byte lengths over the earlier meshes, each size the byte
\* length supplied, and the buffer's cursor is the sum over all meshes.
C36_SpansTileAttributeBuffers ==
    Registered = 1..Len(meshLog) =>
        \A attr \in Attributes :
            /\ CursorOf(attr) = BytesOfFirst(attr, Len(meshLog))
            /\ \A k \in Registered :
                   HasAttribute(meshLog[k], attr) =>
                       /\ WrittenSpan(k, attr).offset = BytesOfFirst(attr, k - 1)
                       /\ WrittenSpan(k, attr).size = AttributeByteLength(meshLog[k], attr)
                       /\ \A j \in Registered :
                              (j < k /\ HasAttribute(meshLog[j], attr)) =>
                                  WrittenSpan(j, attr).offset + WrittenSpan(j, attr).size
                                      <= WrittenSpan(k, attr).offset

\* three meshes registered, all calls returning, the first with uv data and
\* the last two with different vertex data: the third entry's vertex and
\* index spans start where the spans of the first two end
C36_Witness ==
    /\ Len(meshLog) = 3
    /\ Registered = {1, 2, 3}
    /\ meshLog[1].uv0Data.present
    /\ meshLog[2].vertexData # meshLog[3].vertexData
    /\ WrittenSpan(3, "vertex").offset =
           WrittenSpan(2, "vertex").offset + WrittenSpan(2, "vertex").size
    /\ WrittenSpan(2, "index").offset = WrittenSpan(1, "index").size
    /\ WrittenSpan(2, "index").offset > 0
    /\ vertexCursor = WrittenSpan(3, "vertex").offset + WrittenSpan(3, "vertex").size

\* C37: for a mesh registered with uv data and without normal data,
\* getMeshData(handle) returns the uv cursor before the upload as the uv
\* offset and the uv data's byte length as the uv size; for a mesh
\* registered with normals it returns the normal offset and size written.
C37_OptionalSpansReadBack ==
    \A k \in Registered :
        LET d == getMeshData(meshRegistry, meshLog[k].handle)
            e == meshLog[k]
        IN  /\ (e.uv0Data.present /\ ~e.normalData.present) =>
                   /\ d.uv0Offset = e.uv0Offset
                   /\ d.uv0Size = Float32ByteLength(e.uv0Data.data)
            /\ e.normalData.present =>
                   /\ d.normalOffset = e.normalOffset
                   /\ d.normalSize = Float32ByteLength(e.normalData.data)

\* C39: a registerMesh call that throws because the catalog array cannot
\* hold the new entry leaves the vertex, index, normal and uv cursors and
\* the catalog cursor as they were before the call.  (Only registerMesh
\* moves the cursors, so after the last call they are as that call left
\* them.)
C39_ThrowLeavesCursors ==
    (Len(meshLog) > 0 /\ meshLog[Len(meshLog)].threw) =>
        LET e == meshLog[Len(meshLog)]
        IN  /\ vertexCursor = e.vertexOffset
            /\ indexCursor = e.indexOffset
            /\ normalCursor = e.normalOffset
            /\ uv0Cursor = e.uv0Offset
            /\ meshRegistryCursor = e.cursorBefore

\* ================================================================ GPU device

\* GPUDevice: nothing created yet
DeviceInit ==
    device = [buffers |-> <<>>, bindGroups |-> <<>>, shaderModules |-> <<>>,
              bindGroupLayouts |-> <<>>, pipelineLayouts |-> <<>>, pipelines |-> <<>>]

\* ================================================================== Material

MATERIAL_BUFFER_SIZE == 48

\* a fresh 48-byte buffer, as 12 zero words
ZeroBuffer == [i \in 1..12 |-> 0]

\* the descriptors the calling code constructs a Material from (floats in
\* tenths: 10 is 1.0; a flag map is the sequence of its (name, value) entries
\* in insertion order)
MaterialDescriptors ==
    {[shaderIndex |-> 0, albedo |-> None, roughness |-> None, metallic |-> None,
      emissive |-> None, flags |-> None],
     [shaderIndex |-> 0, albedo |-> Some(<<10, 4, 4, 10>>), roughness |-> Some(7),
      metallic |-> Some(0), emissive |-> None, flags |-> Some(<<<<"A", TRUE>>>>)]}

\* the arguments of the setters
AlbedoArgs == {<<2, 3, 5>>, <<2, 3, 5, 7>>}
RoughnessArgs == {1}
MetallicArgs == {9}
EmissiveArgs == {<<6, 8, 4>>}

\* x ?? d
OrDefault(x, d) == IF x.present THEN x.data ELSE d

\* new Material(descriptor)
NewMaterial(descriptor) ==
    [shaderIndex |-> descriptor.shaderIndex,
     albedo |-> OrDefault(descriptor.albedo, <<10, 10, 10, 10>>),
     roughness |-> OrDefault(descriptor.roughness, 5),
     metallic |-> OrDefault(descriptor.metallic, 0),
     emissive |-> OrDefault(descriptor.emissive, <<0, 0, 0>>),
     flags |-> OrDefault(descriptor.flags, <<>>),
     uniformBuffer |-> 0,
     bindGroup |-> 0,
     _dirty |-> TRUE]

\* Material.invalidateBindGroup
invalidateBindGroup(m) == [m EXCEPT !.bindGroup = 0]

\* a setter that leaves the cached bind group in place
markDirty_keepBindGroup(m) == [m EXCEPT !._dirty = TRUE]

\* what every setter does after storing its value
markDirty(m) == invalidateBindGroup([m EXCEPT !._dirty = TRUE])

\* a setAlbedo that also switches the flag "A" on
setAlbedo_setsFlag(m, args) ==
    LET a == IF Len(args) >= 4 THEN args[4] ELSE 10
    IN  markDirty([m EXCEPT !.albedo = <<args[1], args[2], args[3], a>>,
                            !.flags = <<<<"A", TRUE>>>>])

\* Material.setAlbedo(r, g, b, a = 1.0); args holds the arguments passed
setAlbedo(m, args) ==
    LET a == IF Len(args) >= 4 THEN args[4] ELSE 10
    IN  markDirty([m EXCEPT !.albedo = <<args[1], args[2], args[3], a>>])

\* setRoughness without the dirty flag
setRoughness_noDirty(m, value) == invalidateBindGroup([m EXCEPT !.roughness = value])

\* Material.setRoughness
setRoughness(m, value) == markDirty([m EXCEPT !.roughness = value])

\* Material.setMetallic
setMetallic(m, value) == markDirty([m EXCEPT !.metallic = value])

\* Material.setEmissive
setEmissive(m, args) == markDirty([m EXCEPT !.emissive = <<args[1], args[2], args[3]>>])

\* the params vector packed as (metallic, roughness, 0, 0)
PackUniforms_paramsSwapped(m) ==
    <<m.albedo[1], m.albedo[2], m.albedo[3], m.albedo[4],
      m.emissive[1], m.emissive[2], m.emissive[3], 0,
      m.metallic, m.roughness, 0, 0>>

\* the 12 floats uploadUniforms packs
PackUniforms(m) ==
    <<m.albedo[1], m.albedo[2], m.albedo[3], m.albedo[4],
      m.emissive[1], m.emissive[2], m.emissive[3], 0,
      m.roughness, m.metallic, 0, 0>>

\* uploadUniforms that creates a buffer for every upload
uploadUniforms_newBuffer(m, dev) ==
    LET dev1 == [dev EXCEPT !.buffers = Append(@, ZeroBuffer)]
        m1 == [m EXCEPT !.uniformBuffer = Len(dev1.buffers)]
    IN  IF m._dirty
        THEN [m |-> [m1 EXCEPT !._dirty = FALSE],
              dev |-> [dev1 EXCEPT !.buffers[m1.uniformBuffer] = PackUniforms(m1)],
              writes |-> 1]
        ELSE IF m.uniformBuffer = 0 THEN [m |-> m1, dev |-> dev1, writes |-> 0]
        ELSE [m |-> m, dev |-> dev, writes |-> 0]

\* Material.uploadUniforms: the material and the device after the call, and
\* the number of queue.writeBuffer calls made
uploadUniforms(m, dev) ==
    LET create == m.uniformBuffer = 0
        dev1 == IF create THEN [dev EXCEPT !.buffers = Append(@, ZeroBuffer)] ELSE dev
        m1 == IF create THEN [m EXCEPT !.uniformBuffer = Len(dev1.buffers)] ELSE m
    IN  IF m1._dirty
        THEN [m |-> [m1 EXCEPT !._dirty = FALSE],
              dev |-> [dev1 EXCEPT !.buffers[m1.uniformBuffer] = PackUniforms(m1)],
              writes |-> 1]
        ELSE [m |-> m1, dev |-> dev1, writes |-> 0]

\* getBindGroup without the check for a cached bind group
getBindGroup_noCache(m, dev, layout) ==
    LET up == uploadUniforms(m, dev)
        dev2 == [up.dev EXCEPT !.bindGroups =
                    Append(@, [layout |-> layout, buffer |-> up.m.uniformBuffer,
                               offset |-> 0, size |-> MATERIAL_BUFFER_SIZE])]
    IN  [m |-> [up.m EXCEPT !.bindGroup = Len(dev2.bindGroups)], dev |-> dev2,
         writes |-> up.writes, creates |-> 1, result |-> Len(dev2.bindGroups)]

\* Material.getBindGroup: the material and the device after the call, the
\* writeBuffer and createBindGroup calls made, and the bind group returned
getBindGroup(m, dev, layout) ==
    LET up == uploadUniforms(m, dev)
        create == up.m.bindGroup = 0
        dev2 == IF create
                THEN [up.dev EXCEPT !.bindGroups =
                         Append(@, [layout |-> layout, buffer |-> up.m.uniformBuffer,
                                    offset |-> 0, size |-> MATERIAL_BUFFER_SIZE])]
                ELSE up.dev
        m2 == IF create THEN [up.m EXCEPT !.bindGroup = Len(dev2.bindGroups)] ELSE up.m
    IN  [m |-> m2, dev |-> dev2, writes |-> up.writes,
         creates |-> IF create THEN 1 ELSE 0, result |-> m2.bindGroup]

\* ---- the calls on one Material object

\* the bind group layouts a caller passes to getBindGroup
MaterialLayouts == {1, 2}

NoCall == [op |-> "new", writes |-> 0, creates |-> 0, result |-> 0,
           setters |-> 0, uploaded |-> FALSE, invalidated |-> FALSE, prevResult |-> 0]

\* setters: setter calls since the last getBindGroup, counted up to 2;
\* uploaded: uploadUniforms was called after the last setter;
\* invalidated: invalidateBindGroup was called since the last getBindGroup;
\* lastResult: what the last getBindGroup returned (0: none yet)
NoHist == [setters |-> 0, uploaded |-> FALSE, invalidated |-> FALSE, lastResult |-> 0]

MaterialInit ==
    /\ \E d \in MaterialDescriptors : material = NewMaterial(d)
    /\ matCall = NoCall
    /\ matHist = NoHist

\* the Material of the specifications that call no Material method
MaterialIdle ==
    /\ material = NewMaterial([shaderIndex |-> 0, albedo |-> None, roughness |-> None,
                               metallic |-> None, emissive |-> None, flags |-> None])
    /\ matCall = NoCall
    /\ matHist = NoHist

Setter(op, m) ==
    /\ material' = m
    /\ matCall' = [NoCall EXCEPT !.op = op]
    /\ matHist' = [matHist EXCEPT !.setters = IF @ < 2 THEN @ + 1 ELSE @,
                                  !.uploaded = FALSE]
    /\ UNCHANGED <<device, meshVars, shaderVars, managerVars, registryVars, builderVars, graphVars, frameVars, setterCalls>>

SetAlbedo(args) == Setter("setAlbedo", setAlbedo(material, args))

SetRoughness(value) == Setter("setRoughness", setRoughness(material, value))

SetMetallic(value) == Setter("setMetallic", setMetallic(material, value))

SetEmissive(args) == Setter("setEmissive", setEmissive(material, args))

UploadUniforms ==
    LET r == uploadUniforms(material, device)
    IN  /\ material' = r.m
        /\ device' = r.dev
        /\ matCall' = [NoCall EXCEPT !.op = "uploadUniforms", !.writes = r.writes]
        /\ matHist' = [matHist EXCEPT !.uploaded = TRUE]
        /\ UNCHANGED <<meshVars, shaderVars, managerVars, registryVars, builderVars, graphVars, frameVars, setterCalls>>

GetBindGroup(layout) ==
    LET r == getBindGroup(material, device, layout)
    IN  /\ Len(r.dev.bindGroups) <= MaxBindGroups
        /\ material' = r.m
        /\ device' = r.dev
        /\ matCall' = [op |-> "getBindGroup", writes |-> r.writes, creates |-> r.creates,
                       result |-> r.result, setters |-> matHist.setters,
                       uploaded |-> matHist.uploaded, invalidated |-> matHist.invalidated,
                       prevResult |-> matHist.lastResult]
        /\ matHist' = [setters |-> 0, uploaded |-> FALSE, invalidated |-> FALSE,
                       lastResult |-> r.result]
        /\ UNCHANGED <<meshVars, shaderVars, managerVars, registryVars, builderVars, graphVars, frameVars, setterCalls>>

InvalidateBindGroup ==
    /\ material' = invalidateBindGroup(material)
    /\ matCall' = [NoCall EXCEPT !.op = "invalidateBindGroup"]
    /\ matHist' = [matHist EXCEPT !.invalidated = TRUE]
    /\ UNCHANGED <<device, meshVars, shaderVars, managerVars, registryVars, builderVars, graphVars, frameVars, setterCalls>>

MaterialNext ==
    \/ \E args \in AlbedoArgs : SetAlbedo(args)
    \/ \E v \in RoughnessArgs : SetRoughness(v)
    \/ \E v \in MetallicArgs : SetMetallic(v)
    \/ \E args \in EmissiveArgs : SetEmissive(args)
    \/ UploadUniforms
    \/ \E layout \in MaterialLayouts : GetBindGroup(layout)
    \/ InvalidateBindGroup

\* ---- Material: properties

\* C5 as stated: in every reachable state of a Material the cached bind
\* group is present if and only if the dirty flag is false.
C5_BindGroupIffClean ==
    (material.bindGroup # 0) <=> (material._dirty = FALSE)

\* C5, amended: in every reachable state of a Material the cached bind group
\* is present only if the dirty flag is false (uploadUniforms clears the flag
\* without creating a bind group).
C5_BindGroupOnlyIfClean ==
    (material.bindGroup # 0) => (material._dirty = FALSE)

\* a bind group is cached again after a setter had dropped it
C5_Witness ==
    /\ matCall.op = "getBindGroup"
    /\ matCall.setters > 0
    /\ matCall.prevResult # 0
    /\ material.bindGroup # 0

\* C6 as stated: after one or more setter calls, the next getBindGroup call
\* performs exactly one uniform-buffer write and exactly one bind-group
\* creation.
C6_GetAfterSettersUploadsOnce ==
    (matCall.op = "getBindGroup" /\ matCall.setters > 0) =>
        (matCall.writes = 1 /\ matCall.creates = 1)

\* C6, amended: after one or more setter calls, with no uploadUniforms call
\* after the last of them, the next getBindGroup call performs exactly one
\* uniform-buffer write and exactly one bind-group creation, however many
\* setters were called since the previous getBindGroup.
C6_GetAfterSettersNoUploadUploadsOnce ==
    (matCall.op = "getBindGroup" /\ matCall.setters > 0 /\ ~matCall.uploaded) =>
        (matCall.writes = 1 /\ matCall.creates = 1)

\* a getBindGroup that follows two or more setters and an earlier getBindGroup
C6_Witness ==
    /\ matCall.op = "getBindGroup"
    /\ matCall.setters = 2
    /\ ~matCall.uploaded
    /\ matCall.prevResult # 0
    /\ matCall.writes = 1

\* C7 as stated: consecutive getBindGroup calls with no setter call between
\* them return the identical bind-group object, and the later call performs
\* no uniform-buffer write and creates no bind group.
C7_RepeatedGetSameBindGroup ==
    (matCall.op = "getBindGroup" /\ matCall.prevResult # 0 /\ matCall.setters = 0) =>
        (matCall.result = matCall.prevResult /\ matCall.writes = 0 /\ matCall.creates = 0)

\* C7, amended: consecutive getBindGroup calls with no setter call and no
\* invalidateBindGroup call between them return the identical bind-group
\* object, and the later call performs no uniform-buffer write and creates no
\* bind group.
C7_RepeatedGetNoInvalidateSameBindGroup ==
    (/\ matCall.op = "getBindGroup"
     /\ matCall.prevResult # 0
     /\ matCall.setters = 0
     /\ ~matCall.invalidated) =>
        (matCall.result = matCall.prevResult /\ matCall.writes = 0 /\ matCall.creates = 0)

\* a second getBindGroup with nothing but an uploadUniforms since the first
C7_Witness ==
    /\ matCall.op = "getBindGroup"
    /\ matCall.prevResult # 0
    /\ matCall.setters = 0
    /\ ~matCall.invalidated
    /\ matCall.uploaded
    /\ matCall.result = matCall.prevResult

\* C8: whenever getBindGroup returns, the dirty flag is false and the uniform
\* buffer behind the returned bind group holds the 48-byte packing of the
\* current values: words 0-3 albedo, 4-6 emissive, 7 zero, 8 roughness,
\* 9 metallic, 10-11 zero.
C8_ReturnedBindGroupNeverStale ==
    matCall.op = "getBindGroup" =>
        /\ material._dirty = FALSE
        /\ matCall.result # 0
        /\ device.bindGroups[matCall.result].buffer = material.uniformBuffer
        /\ device.bindGroups[matCall.result].size = 48
        /\ LET data == device.buffers[material.uniformBuffer]
           IN  /\ Len(data) * 4 = 48
               /\ \A i \in 1..4 : data[i] = material.albedo[i]
               /\ \A i \in 1..3 : data[4 + i] = material.emissive[i]
               /\ data[8] = 0
               /\ data[9] = material.roughness
               /\ data[10] = material.metallic
               /\ data[11] = 0
               /\ data[12] = 0

\* getBindGroup returns after every kind of setter has changed a value since
\* the buffer was last written
C8_Witness ==
    /\ matCall.op = "getBindGroup"
    /\ matCall.prevResult # 0
    /\ matCall.writes = 1
    /\ material.albedo = <<2, 3, 5, 10>>
    /\ material.emissive = <<6, 8, 4>>
    /\ material.roughness = 1
    /\ material.metallic = 9

\* C33: in every reachable state of a Material a cached bind group implies
\* that the dirty flag is false and the uniform buffer exists; the uniform
\* buffer is created at most once, and every bind group created for the
\* material refers to that buffer.
C33_BindGroupOverOneBuffer ==
    /\ material.bindGroup # 0 => (~material._dirty /\ material.uniformBuffer # 0)
    /\ Len(device.buffers) <= 1
    /\ material.uniformBuffer # 0 => material.uniformBuffer \in 1..Len(device.buffers)
    /\ \A i \in 1..Len(device.bindGroups) :
           /\ material.uniformBuffer # 0
           /\ device.bindGroups[i].buffer = material.uniformBuffer

\* a second bind group was created after a setter dropped the first and a
\* second upload wrote the buffer
C33_Witness ==
    /\ Len(device.bindGroups) = 2
    /\ material.bindGroup = 2
    /\ matCall.op = "getBindGroup"
    /\ matCall.writes = 1
    /\ matCall.prevResult = 1
    /\ Len(device.buffers) = 1

\* ==================================================================== Shader

\* ---- JavaScript strings

\* s.startsWith(p)
StartsWith(s, p) == Len(s) >= Len(p) /\ SubSeq(s, 1, Len(p)) = p

\* s.substring(n)
Substring(s, n) == SubSeq(s, n + 1, Len(s))

\* the white space String.prototype.trim removes
IsSpace(c) == c \in {" ", "\t", "\r"}

\* s.trim()
RECURSIVE Trim(_)
Trim(s) ==
    IF Len(s) = 0 THEN s
    ELSE IF IsSpace(SubSeq(s, 1, 1)) THEN Trim(SubSeq(s, 2, Len(s)))
    ELSE IF IsSpace(SubSeq(s, Len(s), Len(s))) THEN Trim(SubSeq(s, 1, Len(s) - 1))
    ELSE s

\* s.split("\n")
RECURSIVE SplitLines(_)
SplitLines(s) ==
    LET breaks == {i \in 1..Len(s) : SubSeq(s, i, i) = "\n"}
    IN  IF breaks = {} THEN <<s>>
        ELSE LET i == CHOOSE b \in breaks : \A c \in breaks : b <= c
             IN  <<SubSeq(s, 1, i - 1)>> \o SplitLines(SubSeq(s, i + 1, Len(s)))

\* parts.join(sep)
RECURSIVE Join(_, _)
Join(parts, sep) ==
    IF Len(parts) = 0 THEN ""
    ELSE IF Len(parts) = 1 THEN parts[1]
    ELSE parts[1] \o sep \o Join(Tail(parts), sep)

\* the collation order of the characters that occur in flag names:
\* punctuation sorts before letters, letters sort alphabetically
Collation == "_:|ABptvx"

CharRank(c) == CHOOSE i \in 1..Len(Collation) : SubSeq(Collation, i, i) = c

\* a.localeCompare(b): negative, zero or positive
RECURSIVE LocaleCompare(_, _)
LocaleCompare(a, b) ==
    IF Len(a) = 0 /\ Len(b) = 0 THEN 0
    ELSE IF Len(a) = 0 THEN 0 - 1
    ELSE IF Len(b) = 0 THEN 1
    ELSE LET ra == CharRank(SubSeq(a, 1, 1))
             rb == CharRank(SubSeq(b, 1, 1))
         IN  IF ra < rb THEN 0 - 1
             ELSE IF ra > rb THEN 1
             ELSE LocaleCompare(SubSeq(a, 2, Len(a)), SubSeq(b, 2, Len(b)))

\* ---- flag maps (ShaderVariantFlags)

\* A flag map is the sequence of its (name, value) entries in insertion
\* order, as Object.entries lists them; no name occurs twice.
FlagNames == {"A", "B"}

RECURSIVE EntrySeqs(_)
EntrySeqs(names) ==
    {<<>>} \cup
    UNION {{<<<<n, v>>>> \o rest : v \in BOOLEAN, rest \in EntrySeqs(names \ {n})} :
           n \in names}

\* every flag map over A and B, and the maps of the single flag "A|B"
FlagMaps == EntrySeqs(FlagNames) \cup {<<<<"A|B", v>>>> : v \in BOOLEAN}

\* !!flags[name]
FlagSet(flags, name) == \E i \in 1..Len(flags) : flags[i][1] = name /\ flags[i][2]

\* entries.filter(([_, v]) => v)
RECURSIVE ActiveEntries(_)
ActiveEntries(entries) ==
    IF Len(entries) = 0 THEN <<>>
    ELSE (IF entries[1][2] THEN <<entries[1]>> ELSE <<>>) \o ActiveEntries(Tail(entries))

\* insert entry e into the sorted sequence, after the entries it does not
\* precede (Array.prototype.sort is stable)
RECURSIVE InsertSorted(_, _)
InsertSorted(sorted, e) ==
    IF Len(sorted) = 0 THEN <<e>>
    ELSE IF LocaleCompare(e[1], sorted[1][1]) < 0 THEN <<e>> \o sorted
    ELSE <<sorted[1]>> \o InsertSorted(Tail(sorted), e)

\* entries.sort(([a], [b]) => a.localeCompare(b))
RECURSIVE SortEntries(_)
SortEntries(entries) ==
    IF Len(entries) = 0 THEN <<>>
    ELSE InsertSorted(SortEntries(SubSeq(entries, 1, Len(entries) - 1)),
                      entries[Len(entries)])

\* getVariantKey that joins the active names in insertion order
getVariantKey_unsorted(flags) ==
    LET active == ActiveEntries(flags)
        joined == Join([i \in 1..Len(active) |-> active[i][1]], "|")
    IN  IF joined = "" THEN "__default__" ELSE joined

\* Shader.getVariantKey
getVariantKey(flags) ==
    LET active == SortEntries(ActiveEntries(flags))
        joined == Join([i \in 1..Len(active) |-> active[i][1]], "|")
    IN  IF joined = "" THEN "__default__" ELSE joined

\* ---- preprocessing

\* a test of the innermost conditional alone
AllTrue_top(stack) == Len(stack) = 0 \/ stack[Len(stack)]

\* stack.every((v) => v)
AllTrue(stack) == \A i \in 1..Len(stack) : stack[i]

\* the loop of Shader.preprocess from line i on: the output lines, or the
\* error thrown
RECURSIVE PreprocessFrom(_, _, _, _, _)
PreprocessFrom(lines, i, output, stack, flags) ==
    IF i > Len(lines)
    THEN IF Len(stack) > 0
         THEN [threw |-> TRUE, error |-> "unclosed #ifdef / #ifndef", text |-> ""]
         ELSE [threw |-> FALSE, error |-> "", text |-> Join(output, "\n")]
    ELSE LET line == lines[i]
             trimmed == Trim(line)
         IN  IF StartsWith(trimmed, "#ifdef ")
             THEN PreprocessFrom(lines, i + 1, output,
                      Append(stack, FlagSet(flags, Trim(Substring(trimmed, 7)))), flags)
             ELSE IF StartsWith(trimmed, "#ifndef ")
             THEN PreprocessFrom(lines, i + 1, output,
                      Append(stack, ~FlagSet(flags, Trim(Substring(trimmed, 8)))), flags)
             ELSE IF trimmed = "#else"
             THEN IF Len(stack) = 0
                  THEN [threw |-> TRUE, error |-> "#else without matching #ifdef", text |-> ""]
                  ELSE PreprocessFrom(lines, i + 1, output,
                           [stack EXCEPT ![Len(stack)] = ~stack[Len(stack)]], flags)
             ELSE IF trimmed = "#endif"
             THEN IF Len(stack) = 0
                  THEN [threw |-> TRUE, error |-> "#endif without matching #ifdef", text |-> ""]
                  ELSE PreprocessFrom(lines, i + 1, output,
                           SubSeq(stack, 1, Len(stack) - 1), flags)
             ELSE PreprocessFrom(lines, i + 1,
                      IF AllTrue(stack) THEN Append(output, line) ELSE output,
                      stack, flags)

\* preprocess without the check for open conditionals at the end of input
preprocess_noEndCheck(code, flags) ==
    LET r == PreprocessFrom(SplitLines(code), 1, <<>>, <<>>, flags)
    IN  IF r.error = "unclosed #ifdef / #ifndef"
        THEN [threw |-> FALSE, error |-> "", text |-> ""]
        ELSE r

\* Shader.preprocess
preprocess(code, flags) == PreprocessFrom(SplitLines(code), 1, <<>>, <<>>, flags)

\* ---- module compilation and caching

\* the WGSL sources the calling code wraps in a Shader
ShaderCodes ==
    {"x\n#ifdef A\na\n#else\nb\n#endif",
     " #ifdef A \n#ifndef B\nc\n#endif\n#endif\nd",
     "#ifdef A\na"}

\* new Shader(code); a Map is the function from its keys to their values
NewShader(code) == [code |-> code, moduleCache |-> <<>>]

\* map.set(key, value)
MapSet(map, key, value) ==
    [k \in DOMAIN map \cup {key} |-> IF k = key THEN value ELSE map[k]]

\* getModule that compiles without looking in the cache
getModule_noLookup(sh, dev, flags) ==
    LET key == getVariantKey(flags)
        processed == preprocess(sh.code, flags)
        dev1 == [dev EXCEPT !.shaderModules = Append(@, [code |-> processed.text])]
    IN  IF processed.threw
        THEN [shader |-> sh, dev |-> dev, threw |-> TRUE, result |-> 0, created |-> 0]
        ELSE [shader |-> [sh EXCEPT !.moduleCache = MapSet(@, key, Len(dev1.shaderModules))],
              dev |-> dev1, threw |-> FALSE,
              result |-> Len(dev1.shaderModules), created |-> 1]

\* getModule that enters the variant in the cache before it preprocesses
getModule_storeFirst(sh, dev, flags) ==
    LET key == getVariantKey(flags)
        processed == preprocess(sh.code, flags)
        dev1 == [dev EXCEPT !.shaderModules = Append(@, [code |-> processed.text])]
    IN  IF key \in DOMAIN sh.moduleCache
        THEN [shader |-> sh, dev |-> dev, threw |-> FALSE,
              result |-> sh.moduleCache[key], created |-> 0]
        ELSE IF processed.threw
        THEN [shader |-> [sh EXCEPT !.moduleCache = MapSet(@, key, 0)],
              dev |-> dev, threw |-> TRUE, result |-> 0, created |-> 0]
        ELSE [shader |-> [sh EXCEPT !.moduleCache = MapSet(@, key, Len(dev1.shaderModules))],
              dev |-> dev1, threw |-> FALSE,
              result |-> Len(dev1.shaderModules), created |-> 1]

\* Shader.getModule: the shader and the device after the call, whether it
\* threw, the module returned and the createShaderModule calls made
getModule(sh, dev, flags) ==
    LET key == getVariantKey(flags)
        processed == preprocess(sh.code, flags)
        dev1 == [dev EXCEPT !.shaderModules = Append(@, [code |-> processed.text])]
    IN  IF key \in DOMAIN sh.moduleCache
        THEN [shader |-> sh, dev |-> dev, threw |-> FALSE,
              result |-> sh.moduleCache[key], created |-> 0]
        ELSE IF processed.threw
        THEN [shader |-> sh, dev |-> dev, threw |-> TRUE, result |-> 0, created |-> 0]
        ELSE [shader |-> [sh EXCEPT !.moduleCache = MapSet(@, key, Len(dev1.shaderModules))],
              dev |-> dev1, threw |-> FALSE,
              result |-> Len(dev1.shaderModules), created |-> 1]

\* ---- the calls on one Shader object

NoShaderCall == [op |-> "new", flags |-> <<>>, key |-> "", threw |-> FALSE,
                 result |-> 0, created |-> 0]

ShaderInit ==
    /\ \E code \in ShaderCodes : shader = NewShader(code)
    /\ shaderCall = NoShaderCall
    /\ shaderHist = [creates |-> <<>>, first |-> <<>>]
    /\ variantKeys = <<>>

\* the Shader of the specifications that call no method that reads its code
ShaderIdle ==
    /\ shader = NewShader("")
    /\ shaderCall = NoShaderCall
    /\ shaderHist = [creates |-> <<>>, first |-> <<>>]
    /\ variantKeys = <<>>

\* creates: per variant key, the createShaderModule calls made for it;
\* first: per variant key, the module the first getModule call returned
GetModule(flags) ==
    LET r == getModule(shader, device, flags)
        key == getVariantKey(flags)
        before == IF key \in DOMAIN shaderHist.creates THEN shaderHist.creates[key] ELSE 0
    IN  /\ Len(r.dev.shaderModules) <= MaxShaderModules
        /\ shader' = r.shader
        /\ device' = r.dev
        /\ shaderCall' = [op |-> "getModule", flags |-> flags, key |-> key,
                          threw |-> r.threw, result |-> r.result, created |-> r.created]
        /\ shaderHist' =
               [creates |-> MapSet(shaderHist.creates, key, before + r.created),
                first |-> IF r.threw \/ key \in DOMAIN shaderHist.first
                          THEN shaderHist.first
                          ELSE MapSet(shaderHist.first, key, r.result)]
        /\ UNCHANGED <<variantKeys, meshVars, matVars, managerVars, registryVars, builderVars, graphVars, frameVars, setterCalls>>

ShaderNext == \E flags \in FlagMaps : GetModule(flags)

\* a getVariantKey call; the last two calls are kept
GetVariantKey(flags) ==
    /\ variantKeys' = (IF Len(variantKeys) = 0 THEN <<>>
                       ELSE <<variantKeys[Len(variantKeys)]>>)
                      \o <<[flags |-> flags, key |-> getVariantKey(flags)]>>
    /\ UNCHANGED <<shader, shaderCall, shaderHist, device, meshVars, matVars, managerVars, registryVars, builderVars, graphVars, frameVars, setterCalls>>

VariantKeyNext == \E flags \in FlagMaps : GetVariantKey(flags)

\* ---- Shader.preprocess on its own

\* the lines sources are made of: the four directives, two of them with
\* white space around them, and a text line that names its position
Directives == {"#ifdef A", " #ifndef B ", "#else", "#endif"}

TextLine(i) == "x" \o SubSeq("123456789", i, i)

\* the sequences of at most n lines
RECURSIVE LineSeqs(_)
LineSeqs(n) ==
    IF n = 0 THEN {<<>>}
    ELSE LET shorter == LineSeqs(n - 1)
         IN  shorter \cup
             {Append(ls, l) : ls \in {t \in shorter : Len(t) = n - 1},
                              l \in Directives \cup {TextLine(n)}}

PreprocessCodes == {Join(ls, "\n") : ls \in LineSeqs(MaxLines)}

\* the flag maps preprocess is called with
PreprocessFlags ==
    {<<>>, <<<<"A", TRUE>>>>, <<<<"A", TRUE>>, <<"B", TRUE>>>>,
     <<<<"A", FALSE>>, <<"B", TRUE>>>>}

PreprocessInit ==
    /\ \E code \in PreprocessCodes : shader = NewShader(code)
    /\ shaderCall = NoShaderCall
    /\ shaderHist = [creates |-> <<>>, first |-> <<>>]
    /\ variantKeys = <<>>

\* a preprocess call on the shader
Preprocess(flags) ==
    LET r == preprocess(shader.code, flags)
    IN  /\ shaderCall' = [op |-> "preprocess", flags |-> flags, threw |-> r.threw,
                          error |-> r.error, text |-> r.text]
        /\ UNCHANGED <<shader, shaderHist, variantKeys, device, meshVars, matVars,
                       managerVars, registryVars, builderVars, graphVars, frameVars, setterCalls>>

PreprocessNext == \E flags \in PreprocessFlags : Preprocess(flags)

\* ---- Shader: properties

\* what a source line is to the preprocessor
LineKind(line) ==
    LET t == Trim(line)
    IN  IF StartsWith(t, "#ifdef ") THEN "ifdef"
        ELSE IF StartsWith(t, "#ifndef ") THEN "ifndef"
        ELSE IF t = "#else" THEN "else"
        ELSE IF t = "#endif" THEN "endif"
        ELSE "text"

\* the flag an #ifdef or #ifndef line names
ConditionName(line) ==
    LET t == Trim(line)
    IN  IF LineKind(line) = "ifdef" THEN Trim(Substring(t, 7)) ELSE Trim(Substring(t, 8))

\* conditionals opened before line i less conditionals closed before it
Depth(lines, i) ==
    Cardinality({j \in 1..(i - 1) : LineKind(lines[j]) \in {"ifdef", "ifndef"}})
    - Cardinality({j \in 1..(i - 1) : LineKind(lines[j]) = "endif"})

\* well-formed: no #else and no #endif without an open conditional, and no
\* conditional open at the end
WellFormed(lines) ==
    /\ \A i \in 1..Len(lines) :
           LineKind(lines[i]) \in {"else", "endif"} => Depth(lines, i) > 0
    /\ Depth(lines, Len(lines) + 1) = 0

\* the conditional opened at line j is open at line i
Encloses(lines, j, i) ==
    /\ j < i
    /\ LineKind(lines[j]) \in {"ifdef", "ifndef"}
    /\ \A k \in (j + 1)..i : Depth(lines, k) > Depth(lines, j)

\* the #else lines before line i whose innermost open conditional is j
ElsesOf(lines, j, i) ==
    {k \in (j + 1)..(i - 1) :
        /\ LineKind(lines[k]) = "else"
        /\ Encloses(lines, j, k)
        /\ Depth(lines, k) = Depth(lines, j) + 1}

\* the conditional opened at line j holds at line i
HoldsAt(lines, j, i, flags) ==
    LET named == FlagSet(flags, ConditionName(lines[j]))
        base == IF LineKind(lines[j]) = "ifdef" THEN named ELSE ~named
    IN  base <=> (Cardinality(ElsesOf(lines, j, i)) % 2 = 0)

\* the lines the claim says are output: text lines all of whose enclosing
\* conditionals hold
OutputLines(lines, flags) ==
    {i \in 1..Len(lines) :
        /\ LineKind(lines[i]) = "text"
        /\ \A j \in 1..(i - 1) : Encloses(lines, j, i) => HoldsAt(lines, j, i, flags)}

\* the lines at the positions in keep, in source order, from line i on
RECURSIVE PickLines(_, _, _)
PickLines(lines, keep, i) ==
    IF i > Len(lines) THEN <<>>
    ELSE (IF i \in keep THEN <<lines[i]>> ELSE <<>>) \o PickLines(lines, keep, i + 1)

FirstUnmatched(lines) ==
    LET bad == {i \in 1..Len(lines) :
                   LineKind(lines[i]) \in {"else", "endif"} /\ Depth(lines, i) <= 0}
    IN  IF bad = {} THEN 0 ELSE CHOOSE i \in bad : \A k \in bad : i <= k

\* C23: preprocess throws the unmatched-#else error at an #else with no open
\* conditional, the unmatched-#endif error at an #endif with no open
\* conditional, the unclosed-conditional error when the input ends with a
\* conditional open, and returns normally in every other case; whether it
\* throws, and what, is the same for all flag values.
C23_PreprocessErrors ==
    shaderCall.op = "preprocess" =>
        LET lines == SplitLines(shader.code)
            first == FirstUnmatched(lines)
            expected ==
                IF first # 0
                THEN IF LineKind(lines[first]) = "else"
                     THEN "#else without matching #ifdef"
                     ELSE "#endif without matching #ifdef"
                ELSE IF Depth(lines, Len(lines) + 1) > 0
                THEN "unclosed #ifdef / #ifndef"
                ELSE ""
        IN  /\ shaderCall.error = expected
            /\ shaderCall.threw <=> expected # ""
            /\ shaderCall.threw <=> ~WellFormed(lines)
            /\ \A flags \in PreprocessFlags :
                   LET r == preprocess(shader.code, flags)
                   IN  r.threw = shaderCall.threw /\ r.error = shaderCall.error

\* an #else after a conditional was opened and closed
C23_Witness ==
    /\ shaderCall.op = "preprocess"
    /\ shader.code = "#ifdef A\nx2\n#endif\n#else"
    /\ shaderCall.flags = <<<<"A", TRUE>>>>
    /\ shaderCall.threw
    /\ shaderCall.error = "#else without matching #ifdef"


\* the names a flag map gives the value true
TrueNames(flags) == {flags[i][1] : i \in {j \in 1..Len(flags) : flags[j][2]}}

\* C2: in any sequence of getModule calls on one Shader, createShaderModule
\* is invoked at most once per distinct variant key, and every later call
\* whose flags have the same variant key returns the module the first one
\* created.
C2_OneModulePerVariantKey ==
    /\ \A k \in DOMAIN shaderHist.creates : shaderHist.creates[k] <= 1
    /\ (shaderCall.op = "getModule" /\ ~shaderCall.threw) =>
           /\ shaderCall.key \in DOMAIN shaderHist.first
           /\ shaderCall.result = shaderHist.first[shaderCall.key]
           /\ shaderHist.creates[shaderCall.key] = 1

\* a later call with other flags of an already compiled variant, after a
\* module of another variant was compiled
C2_Witness ==
    /\ shaderCall.op = "getModule"
    /\ shaderCall.flags = <<<<"B", FALSE>>, <<"A", TRUE>>>>
    /\ shaderCall.created = 0
    /\ shaderCall.result = 1
    /\ Len(device.shaderModules) >= 2

\* C32: the module a getModule call returns for flags F was compiled from
\* text equal to preprocess(F), for flag maps whose names are arbitrary
\* strings.
C32_ModuleTextIsPreprocessed ==
    (shaderCall.op = "getModule" /\ ~shaderCall.threw) =>
        device.shaderModules[shaderCall.result].code =
            preprocess(shader.code, shaderCall.flags).text

\* C3: flag maps with the same set of true-valued names have the same
\* variant key, whatever explicit-false entries they hold and whatever their
\* insertion order; a map with no true flag has the default sentinel.
C3_VariantKeyCanonical ==
    /\ \A i, j \in 1..Len(variantKeys) :
           TrueNames(variantKeys[i].flags) = TrueNames(variantKeys[j].flags) =>
               variantKeys[i].key = variantKeys[j].key
    /\ \A i \in 1..Len(variantKeys) :
           TrueNames(variantKeys[i].flags) = {} => variantKeys[i].key = "__default__"

\* the same two true flags, inserted in opposite orders
C3_Witness ==
    /\ Len(variantKeys) = 2
    /\ variantKeys[1].flags = <<<<"B", TRUE>>, <<"A", TRUE>>>>
    /\ variantKeys[2].flags = <<<<"A", TRUE>>, <<"B", TRUE>>>>
    /\ variantKeys[1].key = "A|B"
    /\ variantKeys[2].key = "A|B"

\* ============================================================= PipelineCache

\* an optional descriptor field that is not given
Absent == "<undefined>"

\* x ?? d on an optional descriptor field
Coalesce(x, d) == IF x = Absent THEN d ELSE x

\* VERTEX_LAYOUTS: per name, the vertex buffer layouts
VERTEX_LAYOUTS ==
    LET buf(stride, location, format) ==
            [arrayStride |-> stride * 4,
             attributes |-> <<[shaderLocation |-> location, offset |-> 0,
                               format |-> format]>>]
    IN  [name \in {"position", "position_normal", "position_normal_uv"} |->
            IF name = "position"
            THEN [key |-> name, buffers |-> <<buf(3, 0, "float32x3")>>]
            ELSE IF name = "position_normal"
            THEN [key |-> name,
                  buffers |-> <<buf(3, 0, "float32x3"), buf(3, 1, "float32x3")>>]
            ELSE [key |-> name,
                  buffers |-> <<buf(3, 0, "float32x3"), buf(3, 1, "float32x3"),
                                buf(2, 2, "float32x2")>>]]

\* A PipelineDescriptor is a record; its shader field is the position of the
\* Shader object in the manager's shaderStorage, counted from 0.

\* PipelineCache.buildKey
buildKey(desc) ==
    Join(<<"shader:" \o getVariantKey(desc.shaderFlags),
           "vtx:" \o desc.vertexLayout,
           "fmt:" \o desc.format,
           "depth:" \o Coalesce(desc.depthFormat, "none"),
           "dw:" \o Coalesce(desc.depthWriteEnabled, "true"),
           "dc:" \o Coalesce(desc.depthCompare, "less"),
           "cull:" \o Coalesce(desc.cullMode, "none"),
           "topo:" \o Coalesce(desc.topology, "triangle-list"),
           "blend:" \o Coalesce(desc.blendMode, "opaque")>>, "|")

\* the GPURenderPipelineDescriptor getOrCreate builds
RenderPipelineDescriptor(desc, shaderModule) ==
    [layout |-> desc.pipelineLayout,
     vertex |-> [module |-> shaderModule, entryPoint |-> "main",
                 buffers |-> VERTEX_LAYOUTS[desc.vertexLayout].buffers],
     fragment |-> [module |-> shaderModule, entryPoint |-> "frag_main",
                   format |-> desc.format,
                   blend |-> IF desc.blendMode = "alpha" THEN "alpha" ELSE Absent],
     primitive |-> [topology |-> Coalesce(desc.topology, "triangle-list"),
                    cullMode |-> Coalesce(desc.cullMode, "none")],
     depthStencil |->
         IF desc.depthFormat # Absent
         THEN [format |-> desc.depthFormat,
               depthWriteEnabled |-> Coalesce(desc.depthWriteEnabled, "true"),
               depthCompare |-> Coalesce(desc.depthCompare, "less")]
         ELSE [format |-> Absent, depthWriteEnabled |-> Absent, depthCompare |-> Absent]]

\* getOrCreate that does not store the pipeline it creates
getOrCreate_noStore(cache, shaders, dev, desc) ==
    LET key == buildKey(desc)
        mod == getModule(shaders[desc.shader + 1], dev, desc.shaderFlags)
        dev2 == [mod.dev EXCEPT !.pipelines =
                    Append(@, RenderPipelineDescriptor(desc, mod.result))]
        unchanged(error) ==
            [cache |-> cache, shaders |-> shaders, dev |-> dev, threw |-> error # "",
             error |-> error, result |-> 0, created |-> 0]
    IN  IF key \in DOMAIN cache
        THEN [unchanged("") EXCEPT !.result = cache[key]]
        ELSE IF desc.vertexLayout \notin DOMAIN VERTEX_LAYOUTS
        THEN unchanged("Unknown vertex layout")
        ELSE IF mod.threw
        THEN unchanged("Shader preprocessor")
        ELSE [cache |-> cache,
              shaders |-> [shaders EXCEPT ![desc.shader + 1] = mod.shader],
              dev |-> dev2, threw |-> FALSE, error |-> "",
              result |-> Len(dev2.pipelines), created |-> 1]

\* PipelineCache.getOrCreate on the cache map, with the shaders of the
\* manager and the device: what they are after the call, whether it threw,
\* the pipeline returned and the createRenderPipeline calls made
getOrCreate(cache, shaders, dev, desc) ==
    LET key == buildKey(desc)
        mod == getModule(shaders[desc.shader + 1], dev, desc.shaderFlags)
        dev2 == [mod.dev EXCEPT !.pipelines =
                    Append(@, RenderPipelineDescriptor(desc, mod.result))]
        unchanged(error) ==
            [cache |-> cache, shaders |-> shaders, dev |-> dev, threw |-> error # "",
             error |-> error, result |-> 0, created |-> 0]
    IN  IF key \in DOMAIN cache
        THEN [unchanged("") EXCEPT !.result = cache[key]]
        ELSE IF desc.vertexLayout \notin DOMAIN VERTEX_LAYOUTS
        THEN unchanged("Unknown vertex layout")
        ELSE IF mod.threw
        THEN unchanged("Shader preprocessor")
        ELSE [cache |-> MapSet(cache, key, Len(dev2.pipelines)),
              shaders |-> [shaders EXCEPT ![desc.shader + 1] = mod.shader],
              dev |-> dev2, threw |-> FALSE, error |-> "",
              result |-> Len(dev2.pipelines), created |-> 1]

\* ============================================================= ShaderManager

\* the sources registered with the manager: a well-formed one and one with
\* an unclosed #ifdef
ManagerShaderCodes == {"x\n#ifdef A\na\n#else\nb\n#endif", "#ifdef A\na"}

\* the descriptors materials are registered with; the last two shader
\* indices are never registered ones
ManagerMaterialDescriptors ==
    {[shaderIndex |-> d[1], albedo |-> Some(<<10, 4, 4, 10>>), roughness |-> None,
      metallic |-> None, emissive |-> None, flags |-> d[2]] :
        d \in {<<0, None>>, <<0, Some(<<<<"A", TRUE>>>>)>>, <<1, None>>,
               <<MaxShaders, None>>, <<0 - 1, None>>}}

\* the arguments of getPipeline
PipelineVertexLayouts == {"position_normal", "position_normals"}
PipelineFormats == {"rgba8unorm"}
PipelineDepthFormats == {"depth24plus"}

\* new ShaderManager()
NewShaderManager ==
    [shaderStorage |-> <<>>, materialStorage |-> <<>>,
     pipelineCache |-> None,
     globalBindGroupLayout |-> 0, materialBindGroupLayout |-> 0,
     perObjectBindGroupLayout |-> 0, pipelineLayout |-> 0]

NoPipeCall == [op |-> "new", desc |-> <<>>, threw |-> FALSE, error |-> "",
               result |-> 0, created |-> 0, sizeBefore |-> 0, sizeAfter |-> 0,
               repeated |-> FALSE]

\* creates: per descriptor, the createRenderPipeline calls made in
\* getOrCreate calls with it; first: per descriptor, the pipeline its first
\* getOrCreate call returned
NoPipeHist == [creates |-> <<>>, first |-> <<>>]

ManagerInit ==
    /\ manager = NewShaderManager
    /\ pipeCall = NoPipeCall
    /\ pipeHist = NoPipeHist

\* a call that throws before it changes anything
Throws(op, error) ==
    /\ pipeCall' = [NoPipeCall EXCEPT !.op = op, !.threw = TRUE, !.error = error]
    /\ UNCHANGED <<manager, pipeHist, device>>

\* ShaderManager.registerShader
RegisterShader(code) ==
    /\ Len(manager.shaderStorage) < MaxShaders
    /\ manager' = [manager EXCEPT !.shaderStorage = Append(@, NewShader(code))]
    /\ UNCHANGED <<pipeCall, pipeHist, device>>
    /\ UNCHANGED <<meshVars, matVars, shaderVars, registryVars, builderVars, graphVars, frameVars, setterCalls>>

\* registerMaterial without the check of the shader index
RegisterMaterial_noCheck(descriptor) ==
    /\ Len(manager.materialStorage) < MaxMaterials
    /\ manager' = [manager EXCEPT !.materialStorage = Append(@, NewMaterial(descriptor))]
    /\ UNCHANGED <<pipeCall, pipeHist, device>>
    /\ UNCHANGED <<meshVars, matVars, shaderVars, registryVars, builderVars, graphVars, frameVars, setterCalls>>

\* ShaderManager.registerMaterial
RegisterMaterial(descriptor) ==
    /\ Len(manager.materialStorage) < MaxMaterials
    /\ IF descriptor.shaderIndex < 0 \/ descriptor.shaderIndex >= Len(manager.shaderStorage)
       THEN Throws("registerMaterial", "Invalid shader index")
       ELSE /\ manager' = [manager EXCEPT !.materialStorage =
                              Append(@, NewMaterial(descriptor))]
            /\ UNCHANGED <<pipeCall, pipeHist, device>>
    /\ UNCHANGED <<meshVars, matVars, shaderVars, registryVars, builderVars, graphVars, frameVars, setterCalls>>

\* the loop of setup that uploads the uniforms of every material, from
\* material i on
RECURSIVE UploadAll(_, _, _)
UploadAll(materials, dev, i) ==
    IF i > Len(materials) THEN [materials |-> materials, dev |-> dev]
    ELSE LET up == uploadUniforms(materials[i], dev)
         IN  UploadAll([materials EXCEPT ![i] = up.m], up.dev, i + 1)

\* ShaderManager.setup, with the renderer ready: the manager and the device
\* after it
setup(m, dev) ==
    LET n == Len(dev.bindGroupLayouts)
        dev1 == [dev EXCEPT
                    !.bindGroupLayouts = @ \o <<"Global Bind Group Layout (group 0)",
                                                "Material Bind Group Layout (group 1)",
                                                "Per-Object Bind Group Layout (group 2)">>,
                    !.pipelineLayouts = Append(@, <<n + 1, n + 2, n + 3>>)]
        up == UploadAll(m.materialStorage, dev1, 1)
    IN  [manager |-> [m EXCEPT
                         !.globalBindGroupLayout = n + 1,
                         !.materialBindGroupLayout = n + 2,
                         !.perObjectBindGroupLayout = n + 3,
                         !.pipelineLayout = Len(dev1.pipelineLayouts),
                         !.pipelineCache = Some(<<>>),
                         !.materialStorage = up.materials],
         dev |-> up.dev]

\* a ShaderManager.setup call
Setup ==
    LET r == setup(manager, device)
    IN  /\ Len(device.pipelineLayouts) < MaxSetups
        /\ manager' = r.manager
        /\ device' = r.dev
        /\ pipeCall' = [NoPipeCall EXCEPT !.op = "setup"]
        /\ pipeHist' = NoPipeHist
        /\ UNCHANGED <<meshVars, matVars, shaderVars, registryVars, builderVars, graphVars, frameVars, setterCalls>>

\* a getOrCreate call on the manager's pipeline cache, made by op
CallGetOrCreate(op, desc) ==
    LET cache == manager.pipelineCache.data
        r == getOrCreate(cache, manager.shaderStorage, device, desc)
        before == IF desc \in DOMAIN pipeHist.creates THEN pipeHist.creates[desc] ELSE 0
    IN  /\ Len(r.dev.pipelines) <= MaxPipelines
        /\ manager' = [manager EXCEPT !.pipelineCache = Some(r.cache),
                                      !.shaderStorage = r.shaders]
        /\ device' = r.dev
        /\ pipeCall' = [op |-> op, desc |-> desc, threw |-> r.threw, error |-> r.error,
                        result |-> r.result, created |-> r.created,
                        sizeBefore |-> Cardinality(DOMAIN cache),
                        sizeAfter |-> Cardinality(DOMAIN r.cache),
                        repeated |-> desc \in DOMAIN pipeHist.first]
        /\ pipeHist' =
               [creates |-> MapSet(pipeHist.creates, desc, before + r.created),
                first |-> IF r.threw \/ desc \in DOMAIN pipeHist.first
                          THEN pipeHist.first
                          ELSE MapSet(pipeHist.first, desc, r.result)]

\* ShaderManager.getPipeline
GetPipeline(materialIndex, vertexLayout, format, depthFormat) ==
    /\ IF ~manager.pipelineCache.present \/ manager.pipelineLayout = 0
       THEN Throws("getPipeline", "ShaderManager not initialised")
       ELSE IF materialIndex < 0 \/ materialIndex >= Len(manager.materialStorage)
       THEN Throws("getPipeline", "Invalid material index")
       ELSE LET mat == manager.materialStorage[materialIndex + 1]
            IN  IF mat.shaderIndex < 0 \/ mat.shaderIndex >= Len(manager.shaderStorage)
                THEN Throws("getPipeline", "Invalid shader index")
                ELSE CallGetOrCreate("getPipeline",
                         [shader |-> mat.shaderIndex, shaderFlags |-> mat.flags,
                          vertexLayout |-> vertexLayout, format |-> format,
                          depthFormat |-> depthFormat, depthWriteEnabled |-> Absent,
                          depthCompare |-> Absent, cullMode |-> Absent,
                          topology |-> Absent, blendMode |-> Absent,
                          pipelineLayout |-> manager.pipelineLayout])
    /\ UNCHANGED <<meshVars, matVars, shaderVars, registryVars, builderVars, graphVars, frameVars, setterCalls>>

\* a descriptor the calling code hands to pipelineCache.getOrCreate itself
DirectDescriptor ==
    [shader |-> 0, shaderFlags |-> <<<<"B", FALSE>>>>,
     vertexLayout |-> "position", format |-> "rgba8unorm",
     depthFormat |-> Absent, depthWriteEnabled |-> "false",
     depthCompare |-> Absent, cullMode |-> "back",
     topology |-> Absent, blendMode |-> "alpha",
     pipelineLayout |-> manager.pipelineLayout]

\* PipelineCache.getOrCreate, called on the manager's cache
GetOrCreate ==
    /\ manager.pipelineCache.present
    /\ Len(manager.shaderStorage) > 0
    /\ CallGetOrCreate("getOrCreate", DirectDescriptor)
    /\ UNCHANGED <<meshVars, matVars, shaderVars, registryVars, builderVars, graphVars, frameVars, setterCalls>>

\* PipelineCache.clear, called on the manager's cache
Clear ==
    /\ manager.pipelineCache.present
    /\ manager' = [manager EXCEPT !.pipelineCache = Some(<<>>)]
    /\ pipeCall' = [NoPipeCall EXCEPT !.op = "clear"]
    /\ pipeHist' = NoPipeHist
    /\ UNCHANGED device
    /\ UNCHANGED <<meshVars, matVars, shaderVars, registryVars, builderVars, graphVars, frameVars, setterCalls>>

ManagerNext ==
    \/ \E code \in ManagerShaderCodes : RegisterShader(code)
    \/ \E d \in ManagerMaterialDescriptors : RegisterMaterial(d)
    \/ Setup
    \/ \E m \in 0..MaxMaterials, layout \in PipelineVertexLayouts,
          format \in PipelineFormats, depth \in PipelineDepthFormats :
           GetPipeline(m, layout, format, depth)
    \/ GetOrCreate
    \/ Clear

\* ---- PipelineCache: properties

\* C1: for one PipelineCache with no clear() in between, getOrCreate calls
\* with field-for-field equal descriptors return the identical pipeline,
\* createRenderPipeline is invoked at most once for them, and the repeated
\* call leaves size unchanged.
C1_EqualDescriptorsSamePipeline ==
    /\ \A d \in DOMAIN pipeHist.creates : pipeHist.creates[d] <= 1
    /\ (pipeCall.op \in {"getPipeline", "getOrCreate"} /\ pipeCall.desc # <<>>
          /\ ~pipeCall.threw) =>
           /\ pipeCall.desc \in DOMAIN pipeHist.first
           /\ pipeCall.result = pipeHist.first[pipeCall.desc]
    /\ (pipeCall.op \in {"getPipeline", "getOrCreate"} /\ pipeCall.repeated) =>
           /\ pipeCall.sizeAfter = pipeCall.sizeBefore
           /\ pipeCall.created = 0

\* the scenario of the spec: a second identical getPipeline request for
\* "position_normal" with depth24plus returns the first pipeline and the
\* cache size stays at 1
C1_Witness ==
    /\ pipeCall.op = "getPipeline"
    /\ pipeCall.repeated
    /\ pipeCall.desc.vertexLayout = "position_normal"
    /\ pipeCall.desc.depthFormat = "depth24plus"
    /\ pipeCall.result = 1
    /\ pipeCall.sizeBefore = 1
    /\ pipeCall.sizeAfter = 1

\* ---- a PipelineCache used on its own

\* the state after registerShader with a well-formed and a malformed source
\* and setup(): the cache is empty and its device has the three bind group
\* layouts and the pipeline layout
CacheInit ==
    /\ manager = [NewShaderManager EXCEPT
                     !.shaderStorage = <<NewShader("x\n#ifdef A\na\n#else\nb\n#endif"),
                                         NewShader("#ifdef A\na")>>,
                     !.globalBindGroupLayout = 1,
                     !.materialBindGroupLayout = 2,
                     !.perObjectBindGroupLayout = 3,
                     !.pipelineLayout = 1,
                     !.pipelineCache = Some(<<>>)]
    /\ device = [buffers |-> <<>>, bindGroups |-> <<>>, shaderModules |-> <<>>,
                 bindGroupLayouts |-> <<"Global Bind Group Layout (group 0)",
                                        "Material Bind Group Layout (group 1)",
                                        "Per-Object Bind Group Layout (group 2)">>,
                 pipelineLayouts |-> <<<<1, 2, 3>>>>, pipelines |-> <<>>]
    /\ pipeCall = [NoPipeCall EXCEPT !.op = "setup"]
    /\ pipeHist = NoPipeHist

\* a descriptor with the optional fields left out
Descriptor(shaderIndex, flags, vertexLayout) ==
    [shader |-> shaderIndex, shaderFlags |-> flags,
     vertexLayout |-> vertexLayout, format |-> "rgba8unorm",
     depthFormat |-> Absent, depthWriteEnabled |-> Absent,
     depthCompare |-> Absent, cullMode |-> Absent,
     topology |-> Absent, blendMode |-> Absent,
     pipelineLayout |-> 1]

\* the descriptors handed to getOrCreate: known and unknown vertex layout
\* names, flag names with and without punctuation, both shaders
CacheDescriptors ==
    {Descriptor(0, <<>>, "position"),
     Descriptor(0, <<<<"A", TRUE>>>>, "position_normals"),
     Descriptor(0, <<<<"A", TRUE>>>>, "p|vtx:position"),
     Descriptor(0, <<<<"vtx:p", TRUE>>, <<"A", TRUE>>>>, "position"),
     Descriptor(1, <<>>, "position")}

\* PipelineCache.getOrCreate with descriptor desc
GetOrCreateWith(desc) ==
    /\ manager.pipelineCache.present
    /\ CallGetOrCreate("getOrCreate", desc)
    /\ UNCHANGED <<meshVars, matVars, shaderVars, registryVars, builderVars, graphVars, frameVars, setterCalls>>

CacheNext ==
    \/ \E desc \in CacheDescriptors : GetOrCreateWith(desc)
    \/ Clear

\* C20: getOrCreate with a vertex layout name other than "position",
\* "position_normal" or "position_normal_uv" always throws an
\* unknown-vertex-layout error, compiles no shader module, creates no
\* pipeline and leaves the cache contents and size unchanged.
C20_UnknownVertexLayoutThrows ==
    [][\A desc \in CacheDescriptors :
          (GetOrCreateWith(desc) /\ desc.vertexLayout \notin DOMAIN VERTEX_LAYOUTS) =>
              /\ pipeCall'.threw
              /\ pipeCall'.error = "Unknown vertex layout"
              /\ device'.shaderModules = device.shaderModules
              /\ device'.pipelines = device.pipelines
              /\ manager'.pipelineCache = manager.pipelineCache
              /\ pipeCall'.sizeAfter = pipeCall'.sizeBefore]_vars

\* ---- shaders and a PipelineCache used together

\* the flag maps of the direct getModule calls
ModuleFlagMaps == {<<>>, <<<<"A", TRUE>>>>}

\* Shader.getModule, called on the shader at shaderIndex itself
GetModuleOf(shaderIndex, flags) ==
    LET r == getModule(manager.shaderStorage[shaderIndex + 1], device, flags)
    IN  /\ Len(r.dev.shaderModules) <= MaxShaderModules
        /\ manager' = [manager EXCEPT !.shaderStorage[shaderIndex + 1] = r.shader]
        /\ device' = r.dev
        /\ pipeCall' = [NoPipeCall EXCEPT
                           !.op = "getModule", !.threw = r.threw,
                           !.error = IF r.threw THEN "Shader preprocessor" ELSE "",
                           !.result = r.result, !.created = r.created]
        /\ UNCHANGED pipeHist
        /\ UNCHANGED <<meshVars, matVars, shaderVars, registryVars, builderVars, graphVars, frameVars, setterCalls>>

ModulesNext ==
    \/ \E desc \in CacheDescriptors : GetOrCreateWith(desc)
    \/ \E i \in 0..(MaxShaders - 1), flags \in ModuleFlagMaps : GetModuleOf(i, flags)
    \/ Clear

\* the module caches of the shaders, in registration order
ModuleCaches(m) == [i \in 1..Len(m.shaderStorage) |-> m.shaderStorage[i].moduleCache]

\* C21: when preprocessing fails inside getModule, called directly or through
\* getOrCreate, the call throws, no module cache and no pipeline cache gains
\* an entry, and the modules and pipelines cached before are what later calls
\* return: every call but clear() keeps the entries there are, and a call whose
\* key is cached returns the cached object.
C21_PreprocessFailureKeepsCaches ==
    [][/\ (pipeCall'.op \in {"getModule", "getOrCreate"}
            /\ pipeCall'.error = "Shader preprocessor") =>
               /\ pipeCall'.threw
               /\ ModuleCaches(manager') = ModuleCaches(manager)
               /\ manager'.pipelineCache = manager.pipelineCache
               /\ device' = device
       /\ \A i \in 0..(MaxShaders - 1), flags \in ModuleFlagMaps :
              (GetModuleOf(i, flags)
                 /\ preprocess(manager.shaderStorage[i + 1].code, flags).threw
                 /\ getVariantKey(flags) \notin DOMAIN manager.shaderStorage[i + 1].moduleCache)
              => pipeCall'.threw /\ pipeCall'.error = "Shader preprocessor"
       /\ \A i \in 0..(MaxShaders - 1), flags \in ModuleFlagMaps :
              (GetModuleOf(i, flags)
                 /\ getVariantKey(flags) \in DOMAIN manager.shaderStorage[i + 1].moduleCache)
              => /\ ~pipeCall'.threw
                 /\ pipeCall'.result =
                        manager.shaderStorage[i + 1].moduleCache[getVariantKey(flags)]
       /\ \A desc \in CacheDescriptors :
              (GetOrCreateWith(desc) /\ buildKey(desc) \in DOMAIN manager.pipelineCache.data)
              => /\ ~pipeCall'.threw
                 /\ pipeCall'.result = manager.pipelineCache.data[buildKey(desc)]
       /\ \A i \in 1..Len(manager.shaderStorage) :
              \A k \in DOMAIN manager.shaderStorage[i].moduleCache :
                  /\ k \in DOMAIN manager'.shaderStorage[i].moduleCache
                  /\ manager'.shaderStorage[i].moduleCache[k] =
                         manager.shaderStorage[i].moduleCache[k]
       /\ pipeCall'.op # "clear" =>
              \A k \in DOMAIN manager.pipelineCache.data :
                  /\ k \in DOMAIN manager'.pipelineCache.data
                  /\ manager'.pipelineCache.data[k] = manager.pipelineCache.data[k]]_vars

\* getOrCreate fails in the preprocessor of the malformed shader while the
\* cache holds a pipeline and the other shader a compiled module
C21_Witness ==
    /\ pipeCall.op = "getOrCreate"
    /\ pipeCall.threw
    /\ pipeCall.error = "Shader preprocessor"
    /\ pipeCall.desc.shader = 1
    /\ pipeCall.sizeBefore >= 1
    /\ DOMAIN manager.shaderStorage[1].moduleCache # {}

\* ---- a ShaderManager that is set up

\* String(n) for a small index
NumberToString(n) ==
    IF n < 0 THEN "-" \o SubSeq("0123456789", 1 - n, 1 - n)
    ELSE SubSeq("0123456789", n + 1, n + 1)

\* Material.getPipelineKey
getPipelineKey(m) ==
    LET active == SortEntries(ActiveEntries(m.flags))
        flagPart == Join([i \in 1..Len(active) |-> active[i][1]], "|")
    IN  "shader:" \o NumberToString(m.shaderIndex) \o "|flags:" \o
        (IF flagPart = "" THEN "none" ELSE flagPart)

\* the sources and the material descriptors registered before setup(): a
\* well-formed shader with a plain and a flagged material, and a shader with
\* an unclosed #ifdef with one material
ReadyShaderCodes == <<"x\n#ifdef A\na\n#else\nb\n#endif", "#ifdef A\na">>

ReadyMaterialDescriptors ==
    <<[shaderIndex |-> 0, albedo |-> Some(<<10, 4, 4, 10>>), roughness |-> Some(5),
       metallic |-> Some(0), emissive |-> None, flags |-> None],
      [shaderIndex |-> 0, albedo |-> None, roughness |-> None,
       metallic |-> None, emissive |-> None, flags |-> Some(<<<<"A", TRUE>>>>)],
      [shaderIndex |-> 1, albedo |-> None, roughness |-> None,
       metallic |-> None, emissive |-> None, flags |-> None]>>

\* the manager and the device after registerShader and registerMaterial with
\* these and setup(): every material has its uniform buffer written
ReadyInit ==
    LET dev1 == [buffers |-> <<>>, bindGroups |-> <<>>, shaderModules |-> <<>>,
                 bindGroupLayouts |-> <<"Global Bind Group Layout (group 0)",
                                        "Material Bind Group Layout (group 1)",
                                        "Per-Object Bind Group Layout (group 2)">>,
                 pipelineLayouts |-> <<<<1, 2, 3>>>>, pipelines |-> <<>>]
        up == UploadAll([i \in 1..Len(ReadyMaterialDescriptors) |->
                            NewMaterial(ReadyMaterialDescriptors[i])], dev1, 1)
    IN  /\ manager = [NewShaderManager EXCEPT
                         !.shaderStorage = [i \in 1..Len(ReadyShaderCodes) |->
                                               NewShader(ReadyShaderCodes[i])],
                         !.materialStorage = up.materials,
                         !.globalBindGroupLayout = 1,
                         !.materialBindGroupLayout = 2,
                         !.perObjectBindGroupLayout = 3,
                         !.pipelineLayout = 1,
                         !.pipelineCache = Some(<<>>)]
        /\ device = up.dev
        /\ pipeCall = [NoPipeCall EXCEPT !.op = "setup"]
        /\ pipeHist = NoPipeHist

\* a setter call on the material getMaterial(materialIndex) returns
MaterialSetter(materialIndex, m) ==
    /\ manager' = [manager EXCEPT !.materialStorage[materialIndex + 1] = m]
    /\ setterCalls < MaxSetterCalls
    /\ setterCalls' = setterCalls + 1
    /\ UNCHANGED <<pipeCall, pipeHist, device>>
    /\ UNCHANGED <<meshVars, matVars, shaderVars, registryVars, builderVars, graphVars, frameVars>>

\* the arguments of the setter calls
SetterAlbedoArgs == {<<2, 3, 5>>}

SetMaterialAlbedo(i, args) ==
    MaterialSetter(i, setAlbedo(manager.materialStorage[i + 1], args))

SetMaterialRoughness(i, value) ==
    MaterialSetter(i, setRoughness(manager.materialStorage[i + 1], value))

SetMaterialMetallic(i, value) ==
    MaterialSetter(i, setMetallic(manager.materialStorage[i + 1], value))

SetMaterialEmissive(i, args) ==
    MaterialSetter(i, setEmissive(manager.materialStorage[i + 1], args))

\* the setter calls and the getPipeline calls of RenderPass3D.execute
SettersNext ==
    \/ \E i \in 0..(Len(ReadyMaterialDescriptors) - 1) :
           \/ \E args \in SetterAlbedoArgs : SetMaterialAlbedo(i, args)
           \/ \E value \in RoughnessArgs : SetMaterialRoughness(i, value)
           \/ \E value \in MetallicArgs : SetMaterialMetallic(i, value)
           \/ \E args \in EmissiveArgs : SetMaterialEmissive(i, args)
    \/ \E i \in 0..(Len(ReadyMaterialDescriptors) - 1) :
           GetPipeline(i, "position", "bgra8unorm", "depth24plus")

\* what getPipeline(materialIndex, "position", "bgra8unorm", "depth24plus")
\* returns in the state (m, dev): the pipeline, and the pipelines it creates
PipelineOf(m, dev, materialIndex) ==
    LET mat == m.materialStorage[materialIndex + 1]
        r == getOrCreate(m.pipelineCache.data, m.shaderStorage, dev,
                 [shader |-> mat.shaderIndex, shaderFlags |-> mat.flags,
                  vertexLayout |-> "position", format |-> "bgra8unorm",
                  depthFormat |-> "depth24plus", depthWriteEnabled |-> Absent,
                  depthCompare |-> Absent, cullMode |-> Absent,
                  topology |-> Absent, blendMode |-> Absent,
                  pipelineLayout |-> m.pipelineLayout])
    IN  [threw |-> r.threw, result |-> r.result, created |-> r.created]

\* C24: a setAlbedo, setRoughness, setMetallic or setEmissive call on a
\* material changes neither getPipelineKey() of any material nor the
\* pipeline getPipeline returns for it; it creates no pipeline and leaves the
\* pipeline cache and its size as they were.
C24_SettersKeepPipeline ==
    [][(\E i \in 0..(Len(ReadyMaterialDescriptors) - 1) :
           \/ \E args \in SetterAlbedoArgs : SetMaterialAlbedo(i, args)
           \/ \E value \in RoughnessArgs : SetMaterialRoughness(i, value)
           \/ \E value \in MetallicArgs : SetMaterialMetallic(i, value)
           \/ \E args \in EmissiveArgs : SetMaterialEmissive(i, args)) =>
          /\ \A i \in 1..Len(manager.materialStorage) :
                 /\ getPipelineKey(manager'.materialStorage[i]) =
                        getPipelineKey(manager.materialStorage[i])
                 /\ PipelineOf(manager', device', i - 1) = PipelineOf(manager, device, i - 1)
          /\ device'.pipelines = device.pipelines
          /\ manager'.pipelineCache = manager.pipelineCache]_vars

\* the flagged material after a setRoughness call that followed the
\* getPipeline calls: its pipeline is the second one of the cache
C24_Witness ==
    /\ setterCalls >= 1
    /\ manager.materialStorage[2].roughness = 1
    /\ manager.materialStorage[2]._dirty
    /\ Cardinality(DOMAIN manager.pipelineCache.data) = 2
    /\ PipelineOf(manager, device, 1).result = 2
    /\ PipelineOf(manager, device, 1).created = 0

\* C31: two getPipeline requests for materials that reference different
\* registered shaders never return the same pipeline object, also when the
\* materials' flags, the vertex layout and the formats are equal.
C31_DifferentShadersDifferentPipelines ==
    \A d1, d2 \in DOMAIN pipeHist.first :
        d1.shader # d2.shader => pipeHist.first[d1] # pipeHist.first[d2]

\* ---- ShaderManager: properties

\* a shader index that names no registered shader
InvalidShaderIndex(i) == i < 0 \/ i >= Len(manager.shaderStorage)

\* C19: registerMaterial with a shaderIndex that is negative or not smaller
\* than the number of shaders registered so far throws an invalid-shader-index
\* error and leaves the material store unchanged, so every stored material
\* always references a registered shader and the materials stored keep their
\* indices.
C19_InvalidShaderIndexRejected ==
    /\ [](\A i \in 1..Len(manager.materialStorage) :
             ~InvalidShaderIndex(manager.materialStorage[i].shaderIndex))
    /\ [][/\ \A d \in ManagerMaterialDescriptors :
               (RegisterMaterial(d) /\ InvalidShaderIndex(d.shaderIndex)) =>
                   /\ pipeCall'.op = "registerMaterial"
                   /\ pipeCall'.threw
                   /\ pipeCall'.error = "Invalid shader index"
                   /\ manager'.materialStorage = manager.materialStorage
           /\ \A i \in 1..Len(manager.materialStorage) :
               /\ i <= Len(manager'.materialStorage)
               /\ manager'.materialStorage[i].shaderIndex =
                      manager.materialStorage[i].shaderIndex]_vars

\* a registerMaterial call rejected for its shader index while the store
\* holds a material
C19_Witness ==
    /\ pipeCall.op = "registerMaterial"
    /\ pipeCall.threw
    /\ Len(manager.shaderStorage) = 1
    /\ Len(manager.materialStorage) = 1

\* ========================================================= ResourceRegistry

\* the result of a registry call that throws: nothing changes
RegistryThrow(buffers, dev, error) ==
    [buffers |-> buffers, dev |-> dev, threw |-> TRUE, error |-> error,
     result |-> 0, created |-> 0]

\* the result of a registry call that returns
RegistryReturn(buffers, dev, result, created) ==
    [buffers |-> buffers, dev |-> dev, threw |-> FALSE, error |-> "",
     result |-> result, created |-> created]

\* declareBuffer that replaces a slot already declared
declareBuffer_noCheck(buffers, dev, name, size) ==
    LET dev1 == [dev EXCEPT !.buffers = Append(@, [size |-> size])]
    IN  RegistryReturn(MapSet(buffers, name,
                              [buffer |-> Len(dev1.buffers), length |-> size, cursor |-> 0]),
                       dev1, 0, 1)

\* ResourceRegistry.declareBuffer, on the buffers map
declareBuffer(buffers, dev, name, size) ==
    IF name \in DOMAIN buffers
    THEN RegistryThrow(buffers, dev, "is already declared")
    ELSE LET dev1 == [dev EXCEPT !.buffers = Append(@, [size |-> size])]
         IN  RegistryReturn(MapSet(buffers, name,
                                   [buffer |-> Len(dev1.buffers), length |-> size,
                                    cursor |-> 0]),
                            dev1, 0, 1)

\* ResourceRegistry.getBuffer
getBuffer(buffers, dev, name) ==
    IF name \notin DOMAIN buffers
    THEN RegistryThrow(buffers, dev, "is not declared")
    ELSE RegistryReturn(buffers, dev, buffers[name].buffer, 0)

\* ResourceRegistry.getCursor
getCursor(buffers, dev, name) ==
    IF name \notin DOMAIN buffers
    THEN RegistryThrow(buffers, dev, "is not declared")
    ELSE RegistryReturn(buffers, dev, buffers[name].cursor, 0)

\* setCursor that moves the cursor of every slot
setCursor_everySlot(buffers, dev, name, cursor) ==
    IF name \notin DOMAIN buffers
    THEN RegistryThrow(buffers, dev, "is not declared")
    ELSE RegistryReturn([n \in DOMAIN buffers |-> [buffers[n] EXCEPT !.cursor = cursor]],
                        dev, 0, 0)

\* ResourceRegistry.setCursor
setCursor(buffers, dev, name, cursor) ==
    IF name \notin DOMAIN buffers
    THEN RegistryThrow(buffers, dev, "is not declared")
    ELSE RegistryReturn([buffers EXCEPT ![name].cursor = cursor], dev, 0, 0)

\* ================================================================= Renderer

\* new Renderer()
NewRenderer ==
    [ready |-> FALSE, sceneBuffer |-> <<>>, sceneBufferCursor |-> 0,
     sceneIndex |-> <<>>, TEMP_cameraBuffer |-> 0]

NoRegCall == [op |-> "new", name |-> "", value |-> 0, threw |-> FALSE, error |-> "",
              result |-> 0, created |-> 0, writes |-> <<>>, before |-> <<>>]

RegistryInit ==
    /\ renderer = NewRenderer
    /\ registry = None
    /\ regCall = NoRegCall
    /\ uploads = 0

\* the slots Renderer._initializeBuffers declares, in order
RendererSlots == <<"vertex", "index", "normal", "uv", "indirect">>

\* Renderer._initializeBuffers, from slot i on
RECURSIVE InitializeBuffers(_, _, _)
InitializeBuffers(buffers, dev, i) ==
    IF i > Len(RendererSlots) THEN [buffers |-> buffers, dev |-> dev]
    ELSE LET r == declareBuffer(buffers, dev, RendererSlots[i], RegistrySlotSize)
         IN  InitializeBuffers(r.buffers, r.dev, i + 1)

\* Renderer.initialize with an adapter, a device and a context available;
\* the application calls it once
RendererInitialize ==
    LET r == InitializeBuffers(<<>>, device, 1)
        dev1 == [r.dev EXCEPT !.buffers = Append(@, [size |-> 64])]
    IN  /\ ~renderer.ready
        /\ renderer' = [renderer EXCEPT
                           !.ready = TRUE,
                           !.sceneBuffer = [i \in 0..(SceneWords - 1) |-> 0],
                           !.TEMP_cameraBuffer = Len(dev1.buffers)]
        /\ registry' = Some(r.buffers)
        /\ device' = dev1
        /\ regCall' = [NoRegCall EXCEPT !.op = "initialize",
                                        !.created = Len(dev1.buffers) - Len(device.buffers)]
        /\ UNCHANGED uploads
        /\ UNCHANGED <<meshVars, matVars, shaderVars, managerVars, builderVars, graphVars, frameVars, setterCalls>>

\* index data written as it was given
PaddedIndexData_none(data) == data

\* the data Renderer.appendIndexData writes: odd element counts are padded
PaddedIndexData(data) == IF Len(data) % 2 = 1 THEN Append(data, 0) ELSE data

\* Renderer.appendVertexData / appendIndexData on slot name, data of
\* byteLength bytes: the write issued, the buffers map after it and the
\* {addr, byteLength} returned
AppendData(buffers, dev, name, data, byteLength) ==
    LET cursor == getCursor(buffers, dev, name).result
        moved == setCursor(buffers, dev, name, cursor + byteLength).buffers
    IN  [write |-> [buffer |-> getBuffer(buffers, dev, name).result,
                    offset |-> cursor, data |-> data],
         buffers |-> moved,
         info |-> [addr |-> getCursor(moved, dev, name).result - byteLength,
                   byteLength |-> byteLength]]

\* Renderer.uploadMesh.  The appends keep their effect when the
\* sceneBuffer.set of appendToSceneBuffer throws a RangeError.
UploadMesh(vertices, indices) ==
    /\ uploads < MaxUploads
    /\ IF ~renderer.ready
       THEN /\ regCall' = [NoRegCall EXCEPT !.op = "uploadMesh", !.threw = TRUE,
                                            !.error = "is not initialized"]
            /\ UNCHANGED <<renderer, registry, uploads>>
       ELSE LET v == AppendData(registry.data, device, "vertex", vertices,
                                Float32ByteLength(vertices))
                padded == PaddedIndexData(indices)
                x == AppendData(v.buffers, device, "index", padded,
                                Uint16ByteLength(padded))
                buffer == <<3, v.info.addr, v.info.byteLength,
                            x.info.addr, x.info.byteLength>>
                fits == renderer.sceneBufferCursor + Len(buffer) <= SceneWords
            IN  /\ registry' = Some(x.buffers)
                /\ renderer' =
                       IF fits
                       THEN [renderer EXCEPT
                                !.sceneBuffer = SetWords(@, buffer, renderer.sceneBufferCursor),
                                !.sceneBufferCursor = @ + Len(buffer),
                                !.sceneIndex = Append(@,
                                    [vi |-> v.info.addr, vl |-> v.info.byteLength,
                                     ii |-> x.info.addr, il |-> x.info.byteLength])]
                       ELSE renderer
                /\ regCall' = [op |-> "uploadMesh", name |-> "", value |-> 0,
                               threw |-> ~fits,
                               error |-> IF fits THEN "" ELSE "RangeError",
                               result |-> IF fits THEN Len(renderer.sceneIndex) ELSE 0,
                               created |-> 0, writes |-> <<v.write, x.write>>,
                               before |-> registry.data]
                /\ uploads' = uploads + 1
    /\ UNCHANGED device
    /\ UNCHANGED <<meshVars, matVars, shaderVars, managerVars, builderVars, graphVars, frameVars, setterCalls>>

\* the arguments of the calls made on renderer.registry
RegistryNames == {"vertex", "scratch"}
DeclareSizes == {16}
SetCursorArgs == {0, 8}

\* a call on renderer.registry with result r
RegistryCall(op, name, value, r) ==
    /\ registry.present
    /\ registry' = Some(r.buffers)
    /\ device' = r.dev
    /\ regCall' = [op |-> op, name |-> name, value |-> value, threw |-> r.threw,
                   error |-> r.error, result |-> r.result, created |-> r.created,
                   writes |-> <<>>, before |-> registry.data]
    /\ UNCHANGED <<renderer, uploads>>
    /\ UNCHANGED <<meshVars, matVars, shaderVars, managerVars, builderVars, graphVars, frameVars, setterCalls>>

DeclareBuffer(name, size) ==
    RegistryCall("declareBuffer", name, size, declareBuffer(registry.data, device, name, size))

GetBuffer(name) ==
    RegistryCall("getBuffer", name, 0, getBuffer(registry.data, device, name))

GetCursor(name) ==
    RegistryCall("getCursor", name, 0, getCursor(registry.data, device, name))

SetCursor(name, cursor) ==
    RegistryCall("setCursor", name, cursor, setCursor(registry.data, device, name, cursor))

RegistryNext ==
    \/ RendererInitialize
    \/ \E v \in VertexArrays, i \in IndexArrays : UploadMesh(v, i)
    \/ \E name \in RegistryNames, size \in DeclareSizes : DeclareBuffer(name, size)
    \/ \E name \in RegistryNames : GetBuffer(name)
    \/ \E name \in RegistryNames : GetCursor(name)
    \/ \E name \in RegistryNames, cursor \in SetCursorArgs : SetCursor(name, cursor)

\* ---- ResourceRegistry and Renderer: properties

\* the slots of the registry
Slots == IF registry.present THEN DOMAIN registry.data ELSE {}

\* C13: after any sequence of Renderer.uploadMesh calls no buffer slot has
\* its cursor beyond its capacity.
C13_CursorWithinCapacity ==
    \A name \in Slots : registry.data[name].cursor <= registry.data[name].length

\* C14: across declareBuffer, setCursor and Renderer.uploadMesh calls the
\* cursor of a declared slot never decreases.
C14_CursorNeverDecreases ==
    \A name \in Slots \cap DOMAIN regCall.before :
        registry.data[name].cursor >= regCall.before[name].cursor

\* C17: declareBuffer with a name that already exists throws a
\* duplicate-declaration error, creates no GPU buffer and leaves the slot
\* (buffer, length, cursor) as it was; with a fresh name it creates a slot
\* whose cursor is 0.
C17_DeclareBufferDuplicate ==
    regCall.op = "declareBuffer" =>
        IF regCall.name \in DOMAIN regCall.before
        THEN /\ regCall.threw
             /\ regCall.error = "is already declared"
             /\ regCall.created = 0
             /\ registry.data = regCall.before
        ELSE /\ ~regCall.threw
             /\ regCall.created = 1
             /\ regCall.name \in Slots
             /\ registry.data[regCall.name].cursor = 0
             /\ registry.data[regCall.name].length = regCall.value

\* declareBuffer("vertex", ...) again after the cursor of the slot has moved
C17_Witness ==
    /\ regCall.op = "declareBuffer"
    /\ regCall.name = "vertex"
    /\ regCall.threw
    /\ registry.data["vertex"].cursor > 0

\* C18: setCursor(name, v) on a declared name changes only the cursor of
\* that slot and leaves the cursor and the buffer of every other slot alone;
\* getBuffer, getCursor and setCursor on an undeclared name throw NotDeclared
\* and change no slot.
C18_SetCursorFrame ==
    regCall.op \in {"getBuffer", "getCursor", "setCursor"} =>
        IF regCall.name \in DOMAIN regCall.before
        THEN /\ ~regCall.threw
             /\ Slots = DOMAIN regCall.before
             /\ \A n \in Slots \ {regCall.name} : registry.data[n] = regCall.before[n]
             /\ registry.data[regCall.name].buffer = regCall.before[regCall.name].buffer
             /\ registry.data[regCall.name].length = regCall.before[regCall.name].length
             /\ registry.data[regCall.name].cursor =
                    IF regCall.op = "setCursor" THEN regCall.value
                    ELSE regCall.before[regCall.name].cursor
        ELSE /\ regCall.threw
             /\ regCall.error = "is not declared"
             /\ registry.data = regCall.before

\* setCursor("scratch", 8) while the vertex and index slots hold uploads
C18_Witness ==
    /\ regCall.op = "setCursor"
    /\ regCall.name = "scratch"
    /\ ~regCall.threw
    /\ regCall.value # regCall.before["scratch"].cursor
    /\ registry.data["vertex"].cursor > 0
    /\ registry.data["index"].cursor > 0

\* C38: after any sequence of Renderer.uploadMesh calls, with index arrays
\* of odd and even element counts, the cursor of the "index" slot is a
\* multiple of 4 bytes, and every index span recorded (in sceneIndex, in the
\* scene buffer, and as the offset of the index write) starts at a multiple
\* of 4.
C38_IndexCursorWordAligned ==
    /\ "index" \in Slots => registry.data["index"].cursor % 4 = 0
    /\ \A m \in 1..Len(renderer.sceneIndex) :
           /\ renderer.sceneIndex[m].ii % 4 = 0
           /\ renderer.sceneBuffer[5 * (m - 1) + 3] = renderer.sceneIndex[m].ii
    /\ (regCall.op = "uploadMesh" /\ Len(regCall.writes) = 2) =>
           regCall.writes[2].offset % 4 = 0

\* a second uploadMesh after one with three indices: the first index write
\* was padded to four elements and the second span starts at byte 8
C38_Witness ==
    /\ regCall.op = "uploadMesh"
    /\ ~regCall.threw
    /\ Len(renderer.sceneIndex) = 2
    /\ renderer.sceneIndex[1].il = 8
    /\ renderer.sceneIndex[2].ii = 8
    /\ Len(regCall.writes[2].data) = 6
    /\ regCall.writes[2].offset = 8
    /\ registry.data["index"].cursor = 20

\* ======================================================== RenderPassBuilder

\* new RenderPassBuilder(): no pass name, no textures, no buffers
NewRenderPassBuilder == [passName |-> Absent, textures |-> <<>>, buffers |-> <<>>]

NoBuilderCall == [op |-> "new", name |-> "", passName |-> Absent, threw |-> FALSE,
                  error |-> "", before |-> <<>>]

BuilderInit ==
    /\ builder = NewRenderPassBuilder
    /\ builderCall = NoBuilderCall

\* the arguments of the builder calls
PassNames == {"main", "post"}
TextureNames == {"color", "depth"}
TextureParams == {[format |-> "rgba8unorm"], [format |-> "depth24plus"]}

\* the usage records the builder holds
RECURSIVE SumOver(_, _)
SumOver(f, keys) ==
    IF keys = {} THEN 0
    ELSE LET k == CHOOSE x \in keys : TRUE
         IN  f[k] + SumOver(f, keys \ {k})

UsageRecords(textures) ==
    SumOver([t \in DOMAIN textures |->
                SumOver([q \in DOMAIN textures[t].usage |-> Len(textures[t].usage[q])],
                        DOMAIN textures[t].usage)],
            DOMAIN textures)

\* RenderPassBuilder.declareTexture, on the textures map
declareTexture(textures, passName, name, params) ==
    [textures |-> MapSet(textures, name,
                         [param |-> params, usage |-> MapSet(<<>>, passName, <<"declare">>)]),
     threw |-> FALSE, error |-> ""]

\* usage.get(passName) || []
UsageOf(texture, passName) ==
    IF passName \in DOMAIN texture.usage THEN texture.usage[passName] ELSE <<>>

\* a use that replaces the usage list of the pass
UseTexture_replace(textures, passName, name, kind) ==
    IF name \notin DOMAIN textures
    THEN [textures |-> textures, threw |-> TRUE, error |-> "is not declared"]
    ELSE [textures |-> [textures EXCEPT ![name].usage = MapSet(@, passName, <<kind>>)],
          threw |-> FALSE, error |-> ""]

\* RenderPassBuilder.writeTexture (kind "write") and readTexture (kind
\* "read"), which differ in the word they push
UseTexture(textures, passName, name, kind) ==
    IF name \notin DOMAIN textures
    THEN [textures |-> textures, threw |-> TRUE, error |-> "is not declared"]
    ELSE [textures |->
              [textures EXCEPT ![name].usage =
                  MapSet(@, passName, Append(UsageOf(textures[name], passName), kind))],
          threw |-> FALSE, error |-> ""]

writeTexture(textures, passName, name) == UseTexture(textures, passName, name, "write")

readTexture(textures, passName, name) == UseTexture(textures, passName, name, "read")

\* RenderPassBuilder.pass
Pass(name) ==
    /\ builder' = [builder EXCEPT !.passName = name]
    /\ builderCall' = [NoBuilderCall EXCEPT !.op = "pass", !.name = name,
                                            !.passName = name,
                                            !.before = builder.textures]
    /\ UNCHANGED <<device, meshVars, matVars, shaderVars, managerVars, registryVars, graphVars, frameVars, setterCalls>>

\* a builder call with result r
BuilderCall(op, name, r) ==
    /\ UsageRecords(r.textures) <= MaxUsageRecords
    /\ builder' = [builder EXCEPT !.textures = r.textures]
    /\ builderCall' = [op |-> op, name |-> name, passName |-> builder.passName,
                       threw |-> r.threw, error |-> r.error,
                       before |-> builder.textures]
    /\ UNCHANGED <<device, meshVars, matVars, shaderVars, managerVars, registryVars, graphVars, frameVars, setterCalls>>

DeclareTexture(name, params) ==
    BuilderCall("declareTexture", name,
                declareTexture(builder.textures, builder.passName, name, params))

WriteTexture(name) ==
    BuilderCall("writeTexture", name,
                writeTexture(builder.textures, builder.passName, name))

ReadTexture(name) ==
    BuilderCall("readTexture", name,
                readTexture(builder.textures, builder.passName, name))

BuilderNext ==
    \/ \E name \in PassNames : Pass(name)
    \/ \E name \in TextureNames, params \in TextureParams : DeclareTexture(name, params)
    \/ \E name \in TextureNames : WriteTexture(name)
    \/ \E name \in TextureNames : ReadTexture(name)

\* ---- RenderPassBuilder: properties

\* C15: declareTexture with a name that is already declared fails with an
\* AlreadyDeclared error and leaves the descriptor and the usage records of
\* the first declaration unchanged.
C15_DeclareTextureTwiceFails ==
    (builderCall.op = "declareTexture" /\ builderCall.name \in DOMAIN builderCall.before) =>
        /\ builderCall.threw
        /\ builder.textures = builderCall.before

\* C16: readTexture(name) and writeTexture(name) for a name never declared
\* throw a NotDeclared error and add no usage record to any texture; for a
\* declared name they append "read" / "write" to the usage list of the
\* current pass name and change the list of no other pass.
C16_UseTextureRecordsUsage ==
    builderCall.op \in {"readTexture", "writeTexture"} =>
        LET name == builderCall.name
            pass == builderCall.passName
            kind == IF builderCall.op = "readTexture" THEN "read" ELSE "write"
        IN  IF name \notin DOMAIN builderCall.before
            THEN /\ builderCall.threw
                 /\ builderCall.error = "is not declared"
                 /\ builder.textures = builderCall.before
            ELSE LET old == builderCall.before[name]
                     new == builder.textures[name]
                 IN  /\ ~builderCall.threw
                     /\ DOMAIN builder.textures = DOMAIN builderCall.before
                     /\ \A t \in DOMAIN builder.textures \ {name} :
                            builder.textures[t] = builderCall.before[t]
                     /\ new.param = old.param
                     /\ DOMAIN new.usage = DOMAIN old.usage \cup {pass}
                     /\ new.usage[pass] = Append(UsageOf(old, pass), kind)
                     /\ \A q \in DOMAIN old.usage \ {pass} : new.usage[q] = old.usage[q]

\* "color" declared in pass "main" and read in pass "post", then written in
\* pass "main" again
C16_Witness ==
    /\ builderCall.op = "writeTexture"
    /\ builderCall.name = "color"
    /\ builderCall.passName = "main"
    /\ "color" \in DOMAIN builder.textures
    /\ DOMAIN builder.textures["color"].usage = {"main", "post"}
    /\ builder.textures["color"].usage["main"] = <<"declare", "write">>
    /\ builder.textures["color"].usage["post"] = <<"read">>

\* ============================================================== RenderGraph

\* the RenderPass implementations: RenderPass2D and ForwardRenderPass3D
PassKinds == {"RenderPass2D", "ForwardRenderPass3D"}

\* pass.execute(encoder, registry): RenderPass2D asks the registry for the
\* buffers "vertex" and "index", ForwardRenderPass3D does nothing
execute(kind, buffers, dev) ==
    IF kind = "RenderPass2D"
    THEN LET vertex == getBuffer(buffers, dev, "vertex")
             index == getBuffer(buffers, dev, "index")
         IN  IF vertex.threw THEN [threw |-> TRUE, error |-> "Buffer vertex is not declared"]
             ELSE IF index.threw THEN [threw |-> TRUE, error |-> "Buffer index is not declared"]
             ELSE [threw |-> FALSE, error |-> ""]
    ELSE [threw |-> FALSE, error |-> ""]

\* the loop of RenderGraph.render from pass i on: the passes whose execute
\* was invoked so far, in order, and the error that ended the loop
RECURSIVE RenderFrom(_, _, _, _, _)
RenderFrom(passes, buffers, dev, i, executed) ==
    IF i > Len(passes) THEN [executed |-> executed, threw |-> FALSE, error |-> ""]
    ELSE LET r == execute(passes[i], buffers, dev)
         IN  IF r.threw
             THEN [executed |-> Append(executed, i), threw |-> TRUE, error |-> r.error]
             ELSE RenderFrom(passes, buffers, dev, i + 1, Append(executed, i))

\* a render that runs the passes from the last one added to the first
render_lastFirst(passes, buffers, dev) ==
    LET n == Len(passes)
        r == RenderFrom([i \in 1..n |-> passes[n + 1 - i]], buffers, dev, 1, <<>>)
    IN  [r EXCEPT !.executed = [i \in 1..Len(r.executed) |-> n + 1 - r.executed[i]]]

\* RenderGraph.render
render(passes, buffers, dev) == RenderFrom(passes, buffers, dev, 1, <<>>)

\* before, buffers: the pass list and the registry's buffers map the call found
NoGraphCall == [op |-> "new", executed |-> <<>>, threw |-> FALSE, error |-> "",
                before |-> <<>>, buffers |-> <<>>]

\* new ResourceRegistry(device, context) and new RenderGraph(registry)
GraphReadyInit ==
    /\ renderer = NewRenderer
    /\ registry = Some(<<>>)
    /\ regCall = NoRegCall
    /\ uploads = 0
    /\ graph = [passes |-> <<>>]
    /\ graphCall = NoGraphCall

\* graph.passes.push(pass)
AddPass(kind) ==
    /\ Len(graph.passes) < MaxPasses
    /\ graph' = [graph EXCEPT !.passes = Append(@, kind)]
    /\ graphCall' = [NoGraphCall EXCEPT !.op = "push", !.before = graph.passes]
    /\ UNCHANGED <<device, meshVars, matVars, shaderVars, managerVars, registryVars,
                   builderVars, frameVars, setterCalls>>

\* RenderGraph.compile
Compile ==
    /\ graphCall' = [NoGraphCall EXCEPT !.op = "compile", !.before = graph.passes]
    /\ UNCHANGED <<graph, device, meshVars, matVars, shaderVars, managerVars, registryVars,
                   builderVars, frameVars, setterCalls>>

\* RenderGraph.render
Render ==
    LET r == render(graph.passes, registry.data, device)
    IN  /\ graphCall' = [op |-> "render", executed |-> r.executed, threw |-> r.threw,
                         error |-> r.error, before |-> graph.passes,
                         buffers |-> registry.data]
        /\ UNCHANGED <<graph, device, meshVars, matVars, shaderVars, managerVars,
                       registryVars, builderVars, frameVars, setterCalls>>

\* the buffers the calling code declares for the passes
GraphBufferNames == {"vertex", "index"}

GraphNext ==
    \/ \E kind \in PassKinds : AddPass(kind)
    \/ Compile
    \/ Render
    \/ \E name \in GraphBufferNames, size \in DeclareSizes : DeclareBuffer(name, size)

\* ---- RenderGraph: properties

\* C25: render invokes execute on every pass exactly once per call, in the
\* order the passes were added; compile() changes neither the pass list nor
\* its order.
C25_RenderExecutesEveryPass ==
    /\ graphCall.op = "render" =>
           graphCall.executed = [i \in 1..Len(graphCall.before) |-> i]
    /\ graphCall.op \in {"compile", "render"} => graph.passes = graphCall.before

\* C25, with the pass that throws: render invokes execute on the passes in
\* the order they were added, each at most once per call, up to and including
\* the first pass whose execute throws, and on every pass when none throws;
\* the error of that pass is the error of render.  compile() changes neither
\* the pass list nor its order.
C25_RenderExecutesUntilThrow ==
    /\ graphCall.op = "render" =>
           LET n == Len(graphCall.executed)
               passes == graphCall.before
               thrown(i) == execute(passes[i], graphCall.buffers, device)
           IN  /\ n <= Len(passes)
               /\ graphCall.executed = [i \in 1..n |-> i]
               /\ \A i \in 1..(n - 1) : ~thrown(i).threw
               /\ graphCall.threw <=> (n >= 1 /\ thrown(n).threw)
               /\ graphCall.threw => graphCall.error = thrown(n).error
               /\ ~graphCall.threw => n = Len(passes)
    /\ graphCall.op \in {"compile", "render"} => graph.passes = graphCall.before

\* a render of three passes of both kinds, with the buffers declared
C25_Witness ==
    /\ graphCall.op = "render"
    /\ graph.passes = <<"RenderPass2D", "ForwardRenderPass3D", "RenderPass2D">>
    /\ ~graphCall.threw
    /\ graphCall.executed = <<1, 2, 3>>

\* new RenderGraph(registry)
GraphInit ==
    /\ graph = [passes |-> <<>>]
    /\ graphCall = NoGraphCall

\* ============================== Renderer: scene, RenderPass3D, render loop

\* new RenderPass3D()
NewRenderPass3D == [depthTexture |-> 0, globalBindGroup |-> 0,
                    modelBuffers |-> <<>>, modelBindGroups |-> <<>>]

\* n: the execute calls made; scene: the scene the last call found; log: the
\* queue and render-pass commands it issued, in order; order: its
\* sortedIndices
NoFrame == [n |-> 0, threw |-> FALSE, error |-> "", log |-> <<>>, order |-> <<>>,
            scene |-> <<>>]

\* requested: the requestAnimationFrame calls made; run: the frame callbacks
\* run; trace: the calls of the last callback; propagated: whether it threw
NoLoop == [requested |-> 0, run |-> 0, trace |-> <<>>, propagated |-> FALSE]

\* the scene and the pass of a new Renderer
FrameInit ==
    /\ scene = <<>>
    /\ pass3D = NewRenderPass3D
    /\ frame = NoFrame
    /\ loop = NoLoop
    /\ setterCalls = 0

\* renderer.GPUFormat
GPUFormat == "bgra8unorm"

\* the 64-byte buffer of a matrix; a matrix is represented by the number of
\* rotation steps applied to it
MatrixBuffer(matrix) == <<matrix>>

\* the manager and the device after Renderer.initalize (the UniformBuffer is
\* the first buffer), registerShader and registerMaterial, and
\* ShaderManager.setup
ReadyState ==
    LET dev1 == [buffers |-> <<MatrixBuffer(0)>>, bindGroups |-> <<>>,
                 shaderModules |-> <<>>,
                 bindGroupLayouts |-> <<"Global Bind Group Layout (group 0)",
                                        "Material Bind Group Layout (group 1)",
                                        "Per-Object Bind Group Layout (group 2)">>,
                 pipelineLayouts |-> <<<<1, 2, 3>>>>, pipelines |-> <<>>]
        up == UploadAll([i \in 1..Len(ReadyMaterialDescriptors) |->
                            NewMaterial(ReadyMaterialDescriptors[i])], dev1, 1)
    IN  [manager |-> [NewShaderManager EXCEPT
                         !.shaderStorage = [i \in 1..Len(ReadyShaderCodes) |->
                                               NewShader(ReadyShaderCodes[i])],
                         !.materialStorage = up.materials,
                         !.globalBindGroupLayout = 1,
                         !.materialBindGroupLayout = 2,
                         !.perObjectBindGroupLayout = 3,
                         !.pipelineLayout = 1,
                         !.pipelineCache = Some(<<>>)],
         device |-> up.dev]

\* RenderPass3D.setup on that state: the depth texture and the global bind
\* group over the UniformBuffer
FrameReadyInit ==
    /\ manager = ReadyState.manager
    /\ device = [ReadyState.device EXCEPT !.bindGroups =
                    Append(@, [layout |-> ReadyState.manager.globalBindGroupLayout,
                               buffer |-> 1, offset |-> 0, size |-> 64])]
    /\ pipeCall = [NoPipeCall EXCEPT !.op = "setup"]
    /\ pipeHist = NoPipeHist
    /\ scene = <<>>
    /\ pass3D = [NewRenderPass3D EXCEPT !.depthTexture = 1, !.globalBindGroup = 1]
    /\ frame = NoFrame
    /\ loop = NoLoop
    /\ setterCalls = 0

\* the MeshRegistry after Renderer.initalize
MeshReadyInit ==
    /\ meshBuffers = TRUE
    /\ vertexCursor = 0
    /\ indexCursor = 0
    /\ normalCursor = 0
    /\ uv0Cursor = 0
    /\ meshRegistry = [i \in 0..(RegistryWords - 1) |-> 0]
    /\ meshRegistryCursor = 0
    /\ queueWrites = <<>>
    /\ meshLog = <<>>
    /\ meshRead = [meshId |-> Null, data |-> <<>>]

\* the meshes the application registers, in this order
SceneMeshes == <<[vertexData |-> Quad, indexData |-> <<0, 1, 2, 2, 0, 3>>],
                 [vertexData |-> Triangle, indexData |-> <<0, 1, 2>>]>>

\* Renderer.registerMesh with the next of them
RegisterSceneMesh ==
    /\ Len(meshLog) < Len(SceneMeshes)
    /\ RegisterMesh(SceneMeshes[Len(meshLog) + 1].vertexData,
                    SceneMeshes[Len(meshLog) + 1].indexData, None, None)

\* the material handles objects are added with: the three materials and one
\* handle that names no material
SceneMaterialHandles == 0..Len(ReadyMaterialDescriptors)

\* new RenderObject(meshHandle, materialHandle, position, rotation, scale)
RenderObject(meshHandle, materialHandle) ==
    [meshHandle |-> meshHandle, materialHandle |-> materialHandle, matrix |-> 0]

\* RenderState.addObject with a handle registerMesh returned
AddObject(meshHandle, materialHandle) ==
    /\ Len(scene) < MaxObjects
    /\ scene' = Append(scene, RenderObject(meshHandle, materialHandle))
    /\ UNCHANGED <<pass3D, frame, loop, setterCalls>>
    /\ UNCHANGED <<meshVars, device, matVars, shaderVars, managerVars, registryVars, builderVars, graphVars>>

\* a setRoughness call on a stored material between two frames
SetSceneMaterialRoughness(i, value) ==
    /\ setterCalls < MaxFrameSetterCalls
    /\ SetMaterialRoughness(i, value)

\* what getPipeline hands back, from the result r of pipelineCache.getOrCreate
PipelineResult(m, r) ==
    [manager |-> [m EXCEPT !.pipelineCache = Some(r.cache), !.shaderStorage = r.shaders],
     dev |-> r.dev, threw |-> r.threw, error |-> r.error, result |-> r.result]

\* ShaderManager.getPipeline on the manager m and the device dev
getPipeline(m, dev, materialIndex, vertexLayout, format, depthFormat) ==
    LET fail(error) == [manager |-> m, dev |-> dev, threw |-> TRUE,
                        error |-> error, result |-> 0]
    IN  IF ~m.pipelineCache.present \/ m.pipelineLayout = 0
        THEN fail("ShaderManager not initialised")
        ELSE IF materialIndex < 0 \/ materialIndex >= Len(m.materialStorage)
        THEN fail("Invalid material index")
        ELSE LET mat == m.materialStorage[materialIndex + 1]
             IN  IF mat.shaderIndex < 0 \/ mat.shaderIndex >= Len(m.shaderStorage)
                 THEN fail("Invalid shader index")
                 ELSE PipelineResult(m,
                          getOrCreate(m.pipelineCache.data, m.shaderStorage, dev,
                              [shader |-> mat.shaderIndex, shaderFlags |-> mat.flags,
                               vertexLayout |-> vertexLayout, format |-> format,
                               depthFormat |-> depthFormat,
                               depthWriteEnabled |-> Absent,
                               depthCompare |-> Absent, cullMode |-> Absent,
                               topology |-> Absent, blendMode |-> Absent,
                               pipelineLayout |-> m.pipelineLayout]))

\* what getMaterialBindGroup hands back, from the result r of
\* material.getBindGroup; writes: the queue.writeBuffer calls it made
BindGroupResult(m, materialIndex, r) ==
    [manager |-> [m EXCEPT !.materialStorage[materialIndex + 1] = r.m],
     dev |-> r.dev, threw |-> FALSE, error |-> "",
     result |-> r.result, writes |-> r.writes]

\* ShaderManager.getMaterialBindGroup
getMaterialBindGroup(m, dev, materialIndex) ==
    LET fail(error) == [manager |-> m, dev |-> dev, threw |-> TRUE,
                        error |-> error, result |-> 0, writes |-> 0]
    IN  IF m.materialBindGroupLayout = 0
        THEN fail("ShaderManager not initialised")
        ELSE IF materialIndex < 0 \/ materialIndex >= Len(m.materialStorage)
        THEN fail("Invalid material index")
        ELSE BindGroupResult(m, materialIndex,
                 getBindGroup(m.materialStorage[materialIndex + 1], dev,
                              m.materialBindGroupLayout))

\* one queue or render-pass command.  obj: the scene index it is issued for,
\* -1 when for none.  writeBuffer: kind names the data, a the buffer;
\* setBindGroup: a the group index, b the bind group; setPipeline: a the
\* pipeline; drawIndexed: a indexCount, b instanceCount, c firstIndex (the
\* baseVertex and firstInstance passed are 0)
Command(op, kind, obj, a, b, c) ==
    [op |-> op, kind |-> kind, obj |-> obj, a |-> a, b |-> b, c |-> c]

\* RenderPass3D.ensureModelResources: the pass and the device with count
\* model buffers and bind groups
RECURSIVE ensureModelResources(_, _, _, _)
ensureModelResources(p, dev, layout, count) ==
    IF Len(p.modelBuffers) >= count THEN [pass |-> p, dev |-> dev]
    ELSE LET dev1 == [dev EXCEPT !.buffers = Append(@, MatrixBuffer(0))]
             buffer == Len(dev1.buffers)
             dev2 == [dev1 EXCEPT !.bindGroups =
                         Append(@, [layout |-> layout, buffer |-> buffer,
                                    offset |-> 0, size |-> 64])]
         IN  ensureModelResources(
                 [p EXCEPT !.modelBuffers = Append(@, buffer),
                           !.modelBindGroups = Append(@, Len(dev2.bindGroups))],
                 dev2, layout, count)

\* the three mat4.rotate calls on obj.matrix
Rotate(obj) == [obj EXCEPT !.matrix = @ + 1]

\* the loop that uploads the model matrices, from object i (1-based) on
RECURSIVE UploadModels(_, _, _, _, _)
UploadModels(p, sc, dev, log, i) ==
    IF i > Len(sc) THEN [scene |-> sc, dev |-> dev, log |-> log]
    ELSE LET obj == Rotate(sc[i])
         IN  UploadModels(p, [sc EXCEPT ![i] = obj],
                 [dev EXCEPT !.buffers[p.modelBuffers[i]] = MatrixBuffer(obj.matrix)],
                 Append(log, Command("writeBuffer", "model", i - 1, p.modelBuffers[i], 0, 0)),
                 i + 1)

\* sorted with index objIndex inserted in front of the indices whose
\* material handle is equal
InsertIndex_beforeEqual(sc, sorted, objIndex) ==
    LET h == sc[objIndex + 1].materialHandle
        n == Cardinality({k \in 1..Len(sorted) : sc[sorted[k] + 1].materialHandle < h})
    IN  SubSeq(sorted, 1, n) \o <<objIndex>> \o SubSeq(sorted, n + 1, Len(sorted))

\* sorted with index objIndex inserted behind every index whose material
\* handle is not greater: Array.prototype.sort is stable
InsertIndex(sc, sorted, objIndex) ==
    LET h == sc[objIndex + 1].materialHandle
        n == Cardinality({k \in 1..Len(sorted) : sc[sorted[k] + 1].materialHandle <= h})
    IN  SubSeq(sorted, 1, n) \o <<objIndex>> \o SubSeq(sorted, n + 1, Len(sorted))

\* scene.map((_, i) => i).sort(by materialHandle), for the first n objects
RECURSIVE SortedIndices(_, _)
SortedIndices(sc, n) ==
    IF n = 0 THEN <<>> ELSE InsertIndex(sc, SortedIndices(sc, n - 1), n - 1)

\* the test that switches the pipeline and the material bind group
MaterialChanged_always(obj, currentMaterial) == TRUE

MaterialChanged(obj, currentMaterial) == obj.materialHandle # currentMaterial

\* the draw loop over sortedIndices from position k on; st holds the manager,
\* the device, the commands so far and currentMaterial
RECURSIVE DrawFrom(_, _, _, _, _, _)

\* the end of the loop body with the bind group of the first object
DrawObject_firstGroup(p, sc, reg, objIndex, st) ==
    [st EXCEPT !.log = @ \o
        <<Command("setBindGroup", "", objIndex, 2, p.modelBindGroups[1], 0),
          Command("drawIndexed", "", objIndex,
                  getMeshData(reg, sc[objIndex + 1].meshHandle).indexOffset, 1, 0)>>]

\* the end of the loop body: the per-object bind group and the draw call
DrawObject(p, sc, reg, objIndex, st) ==
    [st EXCEPT !.log = @ \o
        <<Command("setBindGroup", "", objIndex, 2, p.modelBindGroups[objIndex + 1], 0),
          Command("drawIndexed", "", objIndex,
                  getMeshData(reg, sc[objIndex + 1].meshHandle).indexOffset, 1, 0)>>]

\* the loop body from setBindGroup(1, ...) on, with the pipeline set and the
\* result bg of getMaterialBindGroup
BindMaterial(p, sc, reg, order, k, st, pipeline, bg) ==
    LET objIndex == order[k]
        h == sc[objIndex + 1].materialHandle
        set == Command("setPipeline", "", objIndex, pipeline, 0, 0)
    IN  IF bg.threw
        THEN [st EXCEPT !.threw = TRUE, !.error = bg.error,
                        !.manager = bg.manager, !.dev = bg.dev,
                        !.log = Append(@, set), !.currentMaterial = h]
        ELSE DrawFrom(p, sc, reg, order, k + 1,
                 DrawObject(p, sc, reg, objIndex,
                     [manager |-> bg.manager, dev |-> bg.dev,
                      log |-> st.log \o <<set>>
                              \o (IF bg.writes > 0
                                  THEN <<Command("writeBuffer", "material", objIndex,
                                                 bg.manager.materialStorage[h + 1].uniformBuffer,
                                                 0, 0)>>
                                  ELSE <<>>)
                              \o <<Command("setBindGroup", "", objIndex, 1, bg.result, 0)>>,
                      currentMaterial |-> h, threw |-> FALSE, error |-> ""]))

\* the loop body from setPipeline on, with the result pl of getPipeline
SwitchMaterial(p, sc, reg, order, k, st, pl) ==
    IF pl.threw
    THEN [st EXCEPT !.threw = TRUE, !.error = pl.error,
                    !.currentMaterial = sc[order[k] + 1].materialHandle]
    ELSE BindMaterial(p, sc, reg, order, k, st, pl.result,
             getMaterialBindGroup(pl.manager, pl.dev, sc[order[k] + 1].materialHandle))

DrawFrom(p, sc, reg, order, k, st) ==
    IF k > Len(order) THEN st
    ELSE IF MaterialChanged(sc[order[k] + 1], st.currentMaterial)
    THEN SwitchMaterial(p, sc, reg, order, k, st,
             getPipeline(st.manager, st.dev, sc[order[k] + 1].materialHandle,
                         "position", GPUFormat, "depth24plus"))
    ELSE DrawFrom(p, sc, reg, order, k + 1, DrawObject(p, sc, reg, order[k], st))

\* the end of execute: renderPass.end and queue.submit, unless the draw loop
\* threw
FinishFrame(p, sc, order, st) ==
    [pass |-> p, scene |-> sc, manager |-> st.manager, dev |-> st.dev,
     threw |-> st.threw, error |-> st.error,
     log |-> IF st.threw THEN st.log
             ELSE st.log \o <<Command("end", "", -1, 0, 0, 0),
                              Command("submit", "", -1, 0, 0, 0)>>,
     order |-> order]

\* execute from beginRenderPass on, with the result up of the model matrix
\* uploads
DrawScene(p, m, reg, up) ==
    FinishFrame(p, up.scene, SortedIndices(up.scene, Len(up.scene)),
        DrawFrom(p, up.scene, reg, SortedIndices(up.scene, Len(up.scene)), 1,
            [manager |-> m, dev |-> up.dev,
             log |-> up.log \o
                     <<Command("beginRenderPass", "", -1, 0, 0, 0),
                       Command("setVertexBuffer", "", -1, 0, 0, 0),
                       Command("setIndexBuffer", "", -1, 0, 0, 0),
                       Command("setBindGroup", "", -1, 0, p.globalBindGroup, 0)>>,
             currentMaterial |-> -1, threw |-> FALSE, error |-> ""]))

\* execute from the viewProjection upload on, with the result res of
\* ensureModelResources
UploadScene(sc, m, reg, res) ==
    DrawScene(res.pass, m, reg,
        UploadModels(res.pass, sc, res.dev,
            <<Command("writeBuffer", "viewProjection", -1, 1, 0, 0)>>, 1))

\* RenderPass3D.execute with the renderer ready: the pass, the scene, the
\* manager and the device after the call, the commands issued, and
\* sortedIndices
execute3D(p, sc, m, dev, reg) ==
    IF Len(sc) = 0
    THEN [pass |-> p, scene |-> sc, manager |-> m, dev |-> dev,
          threw |-> FALSE, error |-> "", log |-> <<>>, order |-> <<>>]
    ELSE UploadScene(sc, m, reg,
             ensureModelResources(p, dev, m.perObjectBindGroupLayout, Len(sc)))

\* the frame closure of Renderer.render with requestAnimationFrame before
\* pass.execute
frameCallback_scheduleFirst(threw) ==
    [trace |-> <<"requestAnimationFrame", "execute">>, scheduled |-> 1,
     propagated |-> threw]

\* the frame closure of Renderer.render, for an execute that threw or
\* returned: the calls it makes and the frames it schedules
frameCallback(threw) ==
    IF threw
    THEN [trace |-> <<"execute">>, scheduled |-> 0, propagated |-> TRUE]
    ELSE [trace |-> <<"execute", "requestAnimationFrame">>, scheduled |-> 1,
          propagated |-> FALSE]

\* Renderer.render
StartRender ==
    /\ loop.requested < MaxFrames
    /\ loop' = [loop EXCEPT !.requested = @ + 1]
    /\ UNCHANGED <<scene, pass3D, frame, setterCalls>>
    /\ UNCHANGED <<meshVars, device, matVars, shaderVars, managerVars, registryVars, builderVars, graphVars>>

\* the frame callback with the result r of pass.execute
RunFrame(r, cb) ==
    /\ scene' = r.scene
    /\ pass3D' = r.pass
    /\ manager' = r.manager
    /\ device' = r.dev
    /\ frame' = [n |-> frame.n + 1, threw |-> r.threw, error |-> r.error,
                 log |-> r.log, order |-> r.order, scene |-> scene]
    /\ loop' = [requested |-> loop.requested + cb.scheduled,
                run |-> loop.run + 1, trace |-> cb.trace,
                propagated |-> cb.propagated]

\* the browser runs a requested frame callback
FrameCallback ==
    /\ loop.run < loop.requested
    /\ loop.run < MaxFrames
    /\ RunFrame(execute3D(pass3D, scene, manager, device, meshRegistry),
                frameCallback(execute3D(pass3D, scene, manager, device, meshRegistry).threw))
    /\ UNCHANGED <<pipeCall, pipeHist, setterCalls>>
    /\ UNCHANGED <<meshVars, matVars, shaderVars, registryVars, builderVars, graphVars>>

FrameNext ==
    \/ RegisterSceneMesh
    \/ \E k \in 1..Len(meshLog) : \E materialHandle \in SceneMaterialHandles :
           ~meshLog[k].threw /\ AddObject(meshLog[k].handle, materialHandle)
    \/ \E i \in 0..1 : \E value \in RoughnessArgs : SetSceneMaterialRoughness(i, value)
    \/ StartRender
    \/ FrameCallback

\* ---- RenderPass3D and the render loop: properties

\* the commands of the last frame with the given name, in the order issued
CommandsOf(op) == SelectSeq(frame.log, LAMBDA e : e.op = op)

\* the setBindGroup commands of the last frame for the given group
BindGroupsOf(group) ==
    SelectSeq(frame.log, LAMBDA e : e.op = "setBindGroup" /\ e.a = group)

\* the scene indices of the last frame's draw calls, in the order drawn
DrawnObjects == [k \in 1..Len(CommandsOf("drawIndexed")) |-> CommandsOf("drawIndexed")[k].obj]

\* the materialHandle of the object at a scene index, in the last frame
HandleOf(objIndex) == frame.scene[objIndex + 1].materialHandle

\* C26: in every RenderPass3D.execute frame every uniform-buffer write
\* (view-projection, model matrices, material uniforms) is issued before
\* beginRenderPass, beginRenderPass before every draw call, every draw call
\* before renderPass.end, and end before queue.submit.
C26_UniformWritesBeforePass ==
    \A i, j \in 1..Len(frame.log) :
        LET before(first, second) ==
                (frame.log[i].op = first /\ frame.log[j].op = second) => i < j
        IN  /\ before("writeBuffer", "beginRenderPass")
            /\ before("beginRenderPass", "drawIndexed")
            /\ before("drawIndexed", "end")
            /\ before("end", "submit")

\* C27: when pass.execute throws in a frame callback the error propagates
\* out of the callback and the callback requests no further frame; when it
\* returns, the callback requests exactly one next frame, after execute has
\* returned.
C27_FrameLoopStopsOnThrow ==
    [][loop'.run = loop.run + 1 =>
          /\ frame'.n = frame.n + 1
          /\ loop'.propagated = frame'.threw
          /\ frame'.threw =>
                 /\ loop'.requested = loop.requested
                 /\ loop'.trace = <<"execute">>
          /\ ~frame'.threw =>
                 /\ loop'.requested = loop.requested + 1
                 /\ loop'.trace = <<"execute", "requestAnimationFrame">>]_vars

\* a first frame that returned and requested the second, which threw on an
\* object added in between: nothing is left requested
C27_Witness ==
    /\ loop.run = 2
    /\ loop.requested = 2
    /\ loop.propagated
    /\ frame.threw
    /\ frame.error = "Invalid material index"
    /\ Len(frame.scene) = 2

\* C28: the indexed draw issued for a scene object uses the index count and
\* the first-index offset of the object's mesh entry as recorded by
\* registerMesh (counted in indices or in bytes).
C28_DrawUsesMeshEntry ==
    \A i \in 1..Len(frame.log) :
        frame.log[i].op = "drawIndexed" =>
            \E k \in 1..Len(meshLog) :
                /\ meshLog[k].handle = frame.scene[frame.log[i].obj + 1].meshHandle
                /\ frame.log[i].a \in {Len(meshLog[k].indexData),
                                       Uint16ByteLength(meshLog[k].indexData)}
                /\ frame.log[i].c \in {meshLog[k].indexOffset \div 2,
                                       meshLog[k].indexOffset}

\* C29: the draw order of a frame is a permutation of all scene object
\* indices with non-decreasing materialHandle, objects with equal
\* materialHandle in scene insertion order; the draw calls issued follow it,
\* all of it when execute returns.
C29_DrawOrderSorted ==
    LET order == frame.order
        n == Len(frame.scene)
    IN  /\ Len(order) = n
        /\ {order[k] : k \in 1..n} = 0..(n - 1)
        /\ \A k, l \in 1..n :
               k < l => \/ HandleOf(order[k]) < HandleOf(order[l])
                        \/ /\ HandleOf(order[k]) = HandleOf(order[l])
                           /\ order[k] < order[l]
        /\ Len(DrawnObjects) <= n
        /\ DrawnObjects = SubSeq(order, 1, Len(DrawnObjects))
        /\ (frame.n >= 1 /\ ~frame.threw) => DrawnObjects = order

\* a frame over three objects with the handles 1, 0, 1: the second object is
\* drawn first, the third last
C29_Witness ==
    /\ frame.n >= 1
    /\ ~frame.threw
    /\ [k \in 1..Len(frame.scene) |-> frame.scene[k].materialHandle] = <<1, 0, 1>>
    /\ DrawnObjects = <<1, 0, 2>>

\* every material handle of the last frame's scene names a stored material
AllHandlesValid ==
    \A k \in 1..Len(frame.scene) :
        /\ frame.scene[k].materialHandle >= 0
        /\ frame.scene[k].materialHandle < Len(manager.materialStorage)

\* the distinct material handles of the last frame's scene
DistinctHandles == {frame.scene[k].materialHandle : k \in 1..Len(frame.scene)}

SetupAgain ==
    LET r == setup(manager, device)
    IN  /\ Len(device.pipelineLayouts) < MaxLayoutSets
        /\ manager' = r.manager
        /\ device' = r.dev
        /\ pipeCall' = [NoPipeCall EXCEPT !.op = "setup"]
        /\ pipeHist' = NoPipeHist
        /\ UNCHANGED setterCalls
        /\ UNCHANGED <<meshVars, matVars, shaderVars, registryVars, builderVars, graphVars, frameVars>>

\* a ShaderManager.getMaterialBindGroup call
GetMaterialBindGroup(materialIndex) ==
    LET r == getMaterialBindGroup(manager, device, materialIndex)
    IN  /\ manager' = r.manager
        /\ device' = r.dev
        /\ pipeCall' = [NoPipeCall EXCEPT
                            !.op = "getMaterialBindGroup", !.threw = r.threw,
                            !.error = r.error, !.result = r.result,
                            !.created = Len(r.dev.bindGroups) - Len(device.bindGroups)]
        /\ UNCHANGED <<pipeHist, setterCalls>>
        /\ UNCHANGED <<meshVars, matVars, shaderVars, registryVars, builderVars, graphVars, frameVars>>

\* setup, getMaterialBindGroup and setter calls on the manager
RelayoutNext ==
    \/ SetupAgain
    \/ \E i \in 0..Len(ReadyMaterialDescriptors) : GetMaterialBindGroup(i)
    \/ \E i \in 0..(Len(ReadyMaterialDescriptors) - 1), value \in RoughnessArgs :
           SetMaterialRoughness(i, value)

\* C40: the bind group ShaderManager.getMaterialBindGroup returns was
\* created with the manager's current material bind-group layout, also when
\* setup has been run a second time and no material was changed since the
\* bind group was first handed out.
C40_BindGroupOfCurrentLayout ==
    (pipeCall.op = "getMaterialBindGroup" /\ ~pipeCall.threw) =>
        device.bindGroups[pipeCall.result].layout = manager.materialBindGroupLayout

\* C34: every RenderPass3D.execute frame that calls beginRenderPass also
\* calls renderPass.end and queue.submit before control leaves execute, also
\* when getPipeline or getMaterialBindGroup throws for a scene object.
C34_PassAlwaysEnded ==
    (\E i \in 1..Len(frame.log) : frame.log[i].op = "beginRenderPass") =>
        /\ \E i \in 1..Len(frame.log) : frame.log[i].op = "end"
        /\ \E i \in 1..Len(frame.log) : frame.log[i].op = "submit"

\* C35: the draw for scene object i is issued with the per-object bind
\* group modelBindGroups[i], whose buffer was written earlier in the same
\* frame with object i's model matrix, whatever the material sort produces;
\* modelBuffers and modelBindGroups have equal length, never shrink, and have
\* at least scene.length entries when the draws are issued.
C35_DrawUsesOwnModelMatrix ==
    /\ [](/\ Len(pass3D.modelBuffers) = Len(pass3D.modelBindGroups)
          /\ Len(frame.log) > 0 => Len(pass3D.modelBindGroups) >= Len(frame.scene)
          /\ \A i \in 1..Len(frame.log) :
                 frame.log[i].op = "drawIndexed" =>
                     LET obj == frame.log[i].obj
                         bind == frame.log[i - 1]
                         buffer == pass3D.modelBuffers[obj + 1]
                     IN  /\ bind.op = "setBindGroup"
                         /\ bind.a = 2
                         /\ bind.obj = obj
                         /\ bind.b = pass3D.modelBindGroups[obj + 1]
                         /\ device.bindGroups[bind.b].buffer = buffer
                         /\ \E j \in 1..(i - 1) :
                                /\ frame.log[j].op = "writeBuffer"
                                /\ frame.log[j].kind = "model"
                                /\ frame.log[j].obj = obj
                                /\ frame.log[j].a = buffer
                         /\ Cardinality({j \in 1..Len(frame.log) :
                                            /\ frame.log[j].op = "writeBuffer"
                                            /\ frame.log[j].a = buffer}) = 1
                         /\ device.buffers[buffer] = MatrixBuffer(scene[obj + 1].matrix))
    /\ [][/\ Len(pass3D'.modelBuffers) >= Len(pass3D.modelBuffers)
          /\ SubSeq(pass3D'.modelBuffers, 1, Len(pass3D.modelBuffers)) = pass3D.modelBuffers
          /\ SubSeq(pass3D'.modelBindGroups, 1, Len(pass3D.modelBindGroups)) =
                 pass3D.modelBindGroups]_vars

\* a second frame that draws the second object first, each with its own
\* bind group
C35_Witness ==
    /\ frame.n = 2
    /\ ~frame.threw
    /\ DrawnObjects = <<1, 0>>
    /\ BindGroupsOf(2)[1].b = pass3D.modelBindGroups[2]
    /\ BindGroupsOf(2)[2].b = pass3D.modelBindGroups[1]
    /\ scene[1].matrix = 2

\* ============================================================ specifications

InitMesh == MeshInit /\ DeviceInit /\ MaterialIdle /\ ShaderIdle /\ ManagerInit /\ RegistryInit /\ BuilderInit /\ GraphInit /\ FrameInit

InitMaterial == MeshInit /\ DeviceInit /\ MaterialInit /\ ShaderIdle /\ ManagerInit /\ RegistryInit /\ BuilderInit /\ GraphInit /\ FrameInit

InitShader == MeshInit /\ DeviceInit /\ MaterialIdle /\ ShaderInit /\ ManagerInit /\ RegistryInit /\ BuilderInit /\ GraphInit /\ FrameInit

InitPreprocess == MeshInit /\ DeviceInit /\ MaterialIdle /\ PreprocessInit /\ ManagerInit /\ RegistryInit /\ BuilderInit /\ GraphInit /\ FrameInit

InitVariantKey == MeshInit /\ DeviceInit /\ MaterialIdle /\ ShaderIdle /\ ManagerInit /\ RegistryInit /\ BuilderInit /\ GraphInit /\ FrameInit

InitManager == MeshInit /\ DeviceInit /\ MaterialIdle /\ ShaderIdle /\ ManagerInit /\ RegistryInit /\ BuilderInit /\ GraphInit /\ FrameInit

InitCache == MeshInit /\ CacheInit /\ MaterialIdle /\ ShaderIdle /\ RegistryInit /\ BuilderInit /\ GraphInit /\ FrameInit

InitReady == MeshInit /\ ReadyInit /\ MaterialIdle /\ ShaderIdle /\ RegistryInit /\ BuilderInit /\ GraphInit /\ FrameInit

InitRegistry == MeshInit /\ DeviceInit /\ MaterialIdle /\ ShaderIdle /\ ManagerInit /\ RegistryInit /\ BuilderInit /\ GraphInit /\ FrameInit

InitGraph == MeshInit /\ DeviceInit /\ MaterialIdle /\ ShaderIdle /\ ManagerInit /\ GraphReadyInit /\ BuilderInit /\ FrameInit

InitFrame == MeshReadyInit /\ FrameReadyInit /\ MaterialIdle /\ ShaderIdle /\ RegistryInit /\ BuilderInit /\ GraphInit

InitBuilder == MeshInit /\ DeviceInit /\ MaterialIdle /\ ShaderIdle /\ ManagerInit /\ RegistryInit /\ BuilderInit /\ GraphInit /\ FrameInit

SpecMesh == InitMesh /\ [][MeshNext]_vars

SpecMaterial == InitMaterial /\ [][MaterialNext]_vars

SpecShader == InitShader /\ [][ShaderNext]_vars

SpecVariantKey == InitVariantKey /\ [][VariantKeyNext]_vars

SpecPreprocess == InitPreprocess /\ [][PreprocessNext]_vars

SpecManager == InitManager /\ [][ManagerNext]_vars

SpecCache == InitCache /\ [][CacheNext]_vars

SpecModules == InitCache /\ [][ModulesNext]_vars

SpecSetters == InitReady /\ [][SettersNext]_vars

SpecRegistry == InitRegistry /\ [][RegistryNext]_vars

SpecBuilder == InitBuilder /\ [][BuilderNext]_vars

SpecGraph == InitGraph /\ [][GraphNext]_vars

SpecFrame == InitFrame /\ [][FrameNext]_vars

SpecRelayout == InitReady /\ [][RelayoutNext]_vars

====
